---- MODULE Spec2Model ----
(***************************************************************************)
(* The domain query layer of the RAGmonsters MCP server: the tool          *)
(* handlers of src/mcp-server/tools/monsters.js, the schemas they are      *)
(* registered with in src/mcp-server/tools/index.js, the executeQuery      *)
(* helper of src/mcp-server/utils/db.js, and the relational store they     *)
(* read (doc/ragmonsters_schema.sql).                                      *)
(*                                                                         *)
(* A handler is one action.  The store answers a statement with any row    *)
(* order its ORDER BY clause allows: rows that compare equal under the     *)
(* clause (or all rows, without a clause) come back in an order the store  *)
(* picks, so one statement can have several results.                       *)
(*                                                                         *)
(* Optional JavaScript values are sequences of length at most one: <<>>    *)
(* is undefined, <<v>> is the value v.  Payload columns that no handler    *)
(* inspects (powers, descriptions) are left out of the rows.               *)
(***************************************************************************)
EXTENDS Integers, Sequences, FiniteSets, TLC

VARIABLES
    db,        \* the relational store: its tables, fixed for the process lifetime
    dbPool,    \* tools/monsters.js module-level dbPool: FALSE is null
    req,       \* the invocation last made: [tool, via, args]
    resp,      \* its outcome: a success payload or an error
    queries,   \* the statements that invocation handed to client.query, in order
    injected,  \* the kind of fault the store was under during that invocation
    res,       \* resources/monsters.js module state: dbPool and the three cached lists
    calls      \* executeQuery invocations followed step by step: [pc, client, released]

vars == <<db, dbPool, req, resp, queries, injected, res, calls>>

(***************************************************************************)
(* Bounds of the model and constants of the program.                       *)
(***************************************************************************)
MaxMonsters == 3        \* small datasets hold any subset of the ids 1..MaxMonsters
BigSize == 52           \* the large dataset holds the ids 1..BigSize
MaxRows == 2            \* a detail table holds the first 0..MaxRows rows of its catalogue
DefaultLimit == 10
MaxPageSize == 50
NameMatchLimit == 5
DefaultHabitatLimit == 10
CrowdSize == 51         \* the crowded dataset holds CrowdSize creatures of one habitat

Min(a, b) == IF a < b THEN a ELSE b
Max(a, b) == IF a > b THEN a ELSE b

\* JavaScript truthiness of an optional string: undefined and "" are falsy.
Truthy(o) == o # <<>> /\ o[1] # ""
\* A destructuring default: the value, or d when undefined.
OrDefault(o, d) == IF o = <<>> THEN d ELSE o[1]

(***************************************************************************)
(* Text.  Names are sequences of characters, so that LOWER and LIKE can be *)
(* computed; the other text columns are atomic strings.  Both are ordered  *)
(* bytewise (the "C" collation).                                           *)
(***************************************************************************)
CharCode(c) ==
    CASE c = "%" -> 37 [] c = "A" -> 65 [] c = "B" -> 66
      [] c = "_" -> 95 [] c = "a" -> 97 [] c = "b" -> 98

RECURSIVE CharsLess(_, _)
CharsLess(s, t) ==
    IF t = <<>> THEN FALSE
    ELSE IF s = <<>> THEN TRUE
    ELSE IF CharCode(s[1]) # CharCode(t[1]) THEN CharCode(s[1]) < CharCode(t[1])
    ELSE CharsLess(Tail(s), Tail(t))

\* The atomic strings of the model, in bytewise order.
Collation ==
    <<"", "10", "7", "9", "Aquatic", "Blaze", "Burn", "Cave", "Chill", "Common", "Dragon",
      "Elemental", "Fire", "Fish", "Flame", "Ice", "Mythic", "Rare", "Reef", "Sea",
      "Trench">>

CollationIndex(s) == CHOOSE i \in 1..Len(Collation) : Collation[i] = s

\* SQL values are tagged with their type: text (atomic), chars (a name), int.
SqlText(s) == [t |-> "text", v |-> s]
SqlChars(s) == [t |-> "chars", v |-> s]
SqlInt(n) == [t |-> "int", v |-> n]

ValueLess(a, b) ==
    CASE a.t = "int" -> a.v < b.v
      [] a.t = "chars" -> CharsLess(a.v, b.v)
      [] a.t = "text" -> CollationIndex(a.v) < CollationIndex(b.v)

(***************************************************************************)
(* The store.  monsters is the join of monsters, subcategories and         *)
(* categories that every list statement selects from: subcategory_id is    *)
(* NOT NULL and a foreign key, so each monster joins exactly one           *)
(* subcategory and one category.                                           *)
(***************************************************************************)
MonsterColumns ==
    {"monster_id", "name", "subcategory_id", "monster_type", "habitat", "biome",
     "rarity", "discovery", "height", "weight", "appearance", "primary_power",
     "secondary_power", "special_ability", "weakness", "behavior_ecology",
     "notable_specimens"}
SubcategoryColumns == {"subcategory_id", "subcategory_name", "category_id", "description"}
CategoryColumns == {"category_id", "category_name", "description"}

\* The columns of the relation an alias of the FROM clause stands for.
AliasColumns(alias) ==
    CASE alias = "m" -> MonsterColumns
      [] alias = "s" -> SubcategoryColumns
      [] alias = "c" -> CategoryColumns
      [] alias = "qs" -> {"stats_id", "monster_id"}
      [] alias = "k" -> {"keyword_id", "stats_id", "keyword_name", "rating",
                         "base_value", "improvement_points"}
      [] alias = "a" -> {"ability_id", "stats_id", "keyword_id", "ability_name",
                         "mastery_value"}
      [] alias = "f" -> {"flaw_id", "stats_id", "flaw_name", "rating"}
      \* the unqualified columns of augments and of hindrances, and of the
      \* statements that select from categories or from monsters alone
      [] alias = "" -> {"monster_id", "target_name", "modifier", "category_id",
                        "category_name", "habitat", "rarity", "biome"}
      [] OTHER -> {}

\* The creature with identity i.  Identities 1 and 2 share a name, and every
\* filterable column takes two values over any four consecutive identities.
MonsterRow(i) ==
    LET k == i % 4 IN
    [monster_id |-> SqlInt(i),
     name |-> SqlChars(CASE k = 1 -> <<"A", "b">> [] k = 2 -> <<"A", "b">>
                      [] k = 3 -> <<"b", "a">> [] OTHER -> <<"B">>),
     category_name |-> SqlText(IF k \in {1, 3} THEN "Aquatic" ELSE "Elemental"),
     subcategory_name |-> SqlText(IF k \in {1, 3} THEN "Fish" ELSE "Flame"),
     habitat |-> SqlText(IF k \in {1, 0} THEN "Cave" ELSE "Sea"),
     biome |-> SqlText(IF k \in {1, 2} THEN "Reef" ELSE "Trench"),
     rarity |-> SqlText(IF k = 2 THEN "Common" ELSE "Rare")]

\* The detail rows the model draws from.  Keywords and abilities belong to
\* the stat block of creature 1 (stats_id 1); flaws 1 and 2 share a rating;
\* the last row of the flaw, augment and hindrance catalogues belongs to
\* creature 2 and is always present.
KeywordCatalogue ==
    <<[keyword_id |-> SqlInt(1), stats_id |-> SqlInt(1), keyword_name |-> SqlText("Fire"),
       rating |-> SqlInt(10)],
      [keyword_id |-> SqlInt(2), stats_id |-> SqlInt(1), keyword_name |-> SqlText("Ice"),
       rating |-> SqlInt(5)],
      [keyword_id |-> SqlInt(3), stats_id |-> SqlInt(1), keyword_name |-> SqlText("7"),
       rating |-> SqlInt(2)]>>
AbilityCatalogue ==
    <<[ability_id |-> SqlInt(1), keyword_id |-> SqlInt(1), ability_name |-> SqlText("Burn"),
       mastery_value |-> SqlText("5")],
      [ability_id |-> SqlInt(2), keyword_id |-> SqlInt(2), ability_name |-> SqlText("Chill"),
       mastery_value |-> SqlText("3")],
      [ability_id |-> SqlInt(3), keyword_id |-> SqlInt(1), ability_name |-> SqlText("Blaze"),
       mastery_value |-> SqlText("1")]>>
FlawCatalogue ==
    <<[flaw_id |-> SqlInt(1), stats_id |-> SqlInt(1), flaw_name |-> SqlText("Slow"),
       rating |-> SqlInt(3)],
      [flaw_id |-> SqlInt(2), stats_id |-> SqlInt(1), flaw_name |-> SqlText("Weak"),
       rating |-> SqlInt(3)],
      [flaw_id |-> SqlInt(3), stats_id |-> SqlInt(1), flaw_name |-> SqlText("Blind"),
       rating |-> SqlInt(5)]>>
EdgeCatalogue(sign) ==
    <<[edge_id |-> SqlInt(1), monster_id |-> SqlInt(1), target_name |-> SqlText("Aquatic"),
       modifier |-> SqlInt(sign * 5)],
      [edge_id |-> SqlInt(2), monster_id |-> SqlInt(1), target_name |-> SqlText("Fire"),
       modifier |-> SqlInt(sign * 3)],
      [edge_id |-> SqlInt(3), monster_id |-> SqlInt(1), target_name |-> SqlText("Ice"),
       modifier |-> SqlInt(sign * 5)]>>
OtherFlaw == [flaw_id |-> SqlInt(9), stats_id |-> SqlInt(2), flaw_name |-> SqlText("Dull"),
              rating |-> SqlInt(1)]
OtherEdge(sign) ==
    [edge_id |-> SqlInt(9), monster_id |-> SqlInt(2), target_name |-> SqlText("Sea"),
     modifier |-> SqlInt(sign * 5)]

FirstRows(catalogue, n) == {catalogue[i] : i \in 1..Min(n, Len(catalogue))}

NoDetails ==
    [stats |-> {}, keywords |-> {}, abilities |-> {}, flaws |-> {}, augments |-> {},
     hindrances |-> {}]

\* A store holding the creatures ids and no detail rows.
Dataset(ids) == [monsters |-> {MonsterRow(i) : i \in ids}] @@ NoDetails

SmallDatasets == {Dataset(ids) : ids \in SUBSET (1..MaxMonsters)}
BigDataset == Dataset(1..BigSize)

\* The stores with creatures 1 and 2, one stat block each, and detail rows.  An
\* ability row needs its keyword row (keyword_id is a foreign key); creature 1
\* has as many augments as hindrances.
DetailDatasets ==
    {d \in
     {[monsters |-> {MonsterRow(1), MonsterRow(2)},
      stats |-> {[stats_id |-> SqlInt(i), monster_id |-> SqlInt(i)] : i \in {1, 2}},
      keywords |-> FirstRows(KeywordCatalogue, nk),
      abilities |-> FirstRows(AbilityCatalogue, na),
      flaws |-> FirstRows(FlawCatalogue, nf) \cup {OtherFlaw},
      augments |-> FirstRows(EdgeCatalogue(1), ne) \cup {OtherEdge(1)},
      hindrances |-> FirstRows(EdgeCatalogue(-1), ne) \cup {OtherEdge(-1)}] :
        nk \in 0..MaxRows, na \in 0..MaxRows, nf \in 0..MaxRows, ne \in 0..MaxRows} :
       \A a \in d.abilities : \E k \in d.keywords : k.keyword_id = a.keyword_id}

\* The keys of the category and subcategory rows of the model.
CategoryId(name) == IF name = "Aquatic" THEN 1 ELSE 2
SubcategoryId(name) == IF name = "Fish" THEN 1 ELSE 2

\* The categories and subcategories tables: the rows the creatures refer to
\* (monsters.subcategory_id and subcategories.category_id are foreign keys).
Categories(data) ==
    {[category_id |-> SqlInt(CategoryId(m.category_name.v)),
      category_name |-> m.category_name] : m \in data.monsters}
Subcategories(data) ==
    {[subcategory_id |-> SqlInt(SubcategoryId(m.subcategory_name.v)),
      subcategory_name |-> m.subcategory_name,
      category_id |-> SqlInt(CategoryId(m.category_name.v)),
      category_name |-> m.category_name] : m \in data.monsters}

\* The relation a FROM clause denotes.  SELECT DISTINCT column FROM monsters is
\* the set of the column's values.
Relation(data, from) ==
    CASE from = "monsters" -> data.monsters
      [] from = "categories" -> Categories(data)
      \* subcategories s JOIN categories c
      [] from = "subcategories" -> Subcategories(data)
      [] from = "distinct habitat" -> {[habitat |-> m.habitat] : m \in data.monsters}
      [] from = "distinct rarity" -> {[rarity |-> m.rarity] : m \in data.monsters}
      [] from = "distinct biome" -> {[biome |-> m.biome] : m \in data.monsters}
      [] from = "keyword_abilities" ->
            \* questworlds_stats qs JOIN keywords k JOIN abilities a
            {[monster_id |-> qs.monster_id, keyword_id |-> k.keyword_id,
              keyword_name |-> k.keyword_name, rating |-> k.rating,
              ability_id |-> a.ability_id, ability_name |-> a.ability_name,
              mastery_value |-> a.mastery_value] :
               <<qs, k, a>> \in
                 {t \in data.stats \X data.keywords \X data.abilities :
                    t[1].stats_id = t[2].stats_id /\ t[2].keyword_id = t[3].keyword_id}}
      [] from = "stat_flaws" ->
            \* questworlds_stats qs JOIN flaws f
            {[monster_id |-> qs.monster_id, flaw_id |-> f.flaw_id,
              flaw_name |-> f.flaw_name, rating |-> f.rating] :
               <<qs, f>> \in {t \in data.stats \X data.flaws :
                                t[1].stats_id = t[2].stats_id}}
      [] from = "augments" -> data.augments
      [] from = "hindrances" -> data.hindrances

(***************************************************************************)
(* Statements.  A statement is what the handler's string building          *)
(* produces, kept in structured form: the WHERE conjuncts (column =        *)
(* $placeholder), the ORDER BY items, and the LIMIT and OFFSET             *)
(* placeholders or literals.  The parameter array travels beside it.       *)
(***************************************************************************)
Col(alias, column) == [alias |-> alias, column |-> column]

\* The value of a qualified column in a joined row.
ColumnValue(row, c) == row[c.column]

ColumnExists(c) == c.column \in AliasColumns(c.alias)

\* row < other under the ORDER BY items: the first item on which they differ
\* decides, reversed for DESC.
RECURSIVE RowLess(_, _, _)
RowLess(orderBy, row, other) ==
    IF orderBy = <<>> THEN FALSE
    ELSE LET a == ColumnValue(row, orderBy[1].col)
             b == ColumnValue(other, orderBy[1].col)
         IN IF a = b THEN RowLess(Tail(orderBy), row, other)
            ELSE IF orderBy[1].dir = "DESC" THEN ValueLess(b, a)
            ELSE ValueLess(a, b)

\* Every sequence of at most k rows the store may return first, S being what
\* is left after `taken` rows: at each position any row with no row left that
\* sorts before it, which are the rows whose rank (the number of rows sorting
\* before them) does not exceed the number taken.
RECURSIVE Linearize(_, _, _, _)
Linearize(S, rank, taken, k) ==
    IF S = {} \/ k <= 0 THEN {<<>>}
    ELSE UNION {{<<x>> \o rest : rest \in Linearize(S \ {x}, rank, taken + 1, k - 1)} :
                x \in {r \in S : rank[r] <= taken}}

\* The row orders ORDER BY allows, cut to the first k rows.
OrderedRows(S, orderBy, k) ==
    LET rank == [r \in S |-> Cardinality({q \in S : RowLess(orderBy, q, r)})]
    IN Linearize(S, rank, 0, k)

DropFirst(s, n) == SubSeq(s, Min(n, Len(s)) + 1, Len(s))

(***************************************************************************)
(* Errors.  A JavaScript error is its name, its code (pg's errors carry    *)
(* one, a plain Error none) and its message.                               *)
(***************************************************************************)
JsError(message) == [name |-> "Error", code |-> "", message |-> message]

\* pool.connect() rejecting: the store cannot be reached.
ConnectError == [name |-> "Error", code |-> "ECONNREFUSED",
                 message |-> "connect ECONNREFUSED"]
\* client.query() rejecting for a reason of the store's own.
QueryError == [name |-> "error", code |-> "57P01",
               message |-> "terminating connection due to administrator command"]
\* client.query() rejecting the statement.
UndefinedColumn(c) ==
    [name |-> "error", code |-> "42703",
     message |-> "column " \o c.alias \o "." \o c.column \o " does not exist"]
NegativeLimit == [name |-> "error", code |-> "2201W",
                  message |-> "LIMIT must not be negative"]
NegativeOffset == [name |-> "error", code |-> "2201X",
                   message |-> "OFFSET must not be negative"]
TypeMismatch == [name |-> "error", code |-> "22P02",
                 message |-> "invalid input syntax"]

Faults == {"none", "connect", "query"}

(***************************************************************************)
(* The store's evaluation of a statement                                   *)
(*   [from, where, orderBy, limit, offset]                                 *)
(* with its parameters.  where is a sequence of [col, op, ph]; limit and   *)
(* offset are <<>> (no clause) or <<e>> with e a placeholder [ph |-> n] or *)
(* a literal [lit |-> n].                                                  *)
(***************************************************************************)
SeqRange(s) == {s[i] : i \in 1..Len(s)}

Scalar(e, params) == IF "ph" \in DOMAIN e THEN params[e.ph] ELSE SqlInt(e.lit)

RECURSIVE LikeMatch(_, _)
\* SQL LIKE: % matches any run of characters, _ any one character.
LikeMatch(pattern, s) ==
    IF pattern = <<>> THEN s = <<>>
    ELSE IF pattern[1] = "%"
         THEN LikeMatch(Tail(pattern), s)
              \/ (s # <<>> /\ LikeMatch(pattern, Tail(s)))
    ELSE s # <<>>
         /\ (pattern[1] = "_" \/ pattern[1] = s[1])
         /\ LikeMatch(Tail(pattern), Tail(s))

\* SQL LOWER on a sequence of characters.
Lower(s) ==
    [i \in 1..Len(s) |-> CASE s[i] = "A" -> "a" [] s[i] = "B" -> "b" [] OTHER -> s[i]]

\* One WHERE conjunct on one row.  node-postgres sends every parameter as
\* text, so a parameter of another type than the column matches no row.
Satisfies(row, w, params) ==
    \* habitat, rarity and biome are NOT NULL columns: no row holds a null
    IF w.op = "IS NOT NULL" THEN TRUE
    ELSE
    /\ ColumnValue(row, w.col).t = params[w.ph].t
    /\ CASE w.op = "=" -> ColumnValue(row, w.col).v = params[w.ph].v
         [] w.op = "LOWER LIKE LOWER" ->
              LikeMatch(Lower(params[w.ph].v), Lower(ColumnValue(row, w.col).v))
         [] w.op = "LOWER IN LOWER" ->
              Lower(ColumnValue(row, w.col).v)
                 \in {Lower(params[w.ph].v), Lower(params[w.ph + 1].v)}

\* The results the store may give: an error, or the rows in an allowed order.
Evaluate(data, stmt, params) ==
    LET cols == {w.col : w \in SeqRange(stmt.where)}
                  \cup {o.col : o \in SeqRange(stmt.orderBy)}
        missing == {c \in cols : ~ColumnExists(c)}
        scalars == (IF stmt.limit = <<>> THEN {} ELSE {Scalar(stmt.limit[1], params)})
                     \cup (IF stmt.offset = <<>> THEN {}
                           ELSE {Scalar(stmt.offset[1], params)})
        limit == IF stmt.limit = <<>> THEN Cardinality(Relation(data, stmt.from))
                 ELSE Scalar(stmt.limit[1], params).v
        offset == IF stmt.offset = <<>> THEN 0 ELSE Scalar(stmt.offset[1], params).v
        matching == {row \in Relation(data, stmt.from) :
                       \A w \in SeqRange(stmt.where) : Satisfies(row, w, params)}
    IN  IF missing # {}
          THEN {[ok |-> FALSE, error |-> UndefinedColumn(CHOOSE c \in missing : TRUE)]}
        ELSE IF \E x \in scalars : x.t # "int" THEN {[ok |-> FALSE, error |-> TypeMismatch]}
        ELSE IF limit < 0 THEN {[ok |-> FALSE, error |-> NegativeLimit]}
        ELSE IF offset < 0 THEN {[ok |-> FALSE, error |-> NegativeOffset]}
        ELSE {[ok |-> TRUE, rows |-> DropFirst(s, offset)] :
                s \in OrderedRows(matching, stmt.orderBy, offset + limit)}

(***************************************************************************)
(* executeQuery (utils/db.js): acquire a client, run the statement, hand   *)
(* back result.rows; an error of either step is rethrown.  sent tells      *)
(* whether the statement reached client.query.                             *)
(***************************************************************************)
\* An executeQuery whose catch would hand back no rows in place of the error.
executeQueryEmptyOnError(data, fault, stmt, params) ==
    IF fault = "connect"
      THEN {[ok |-> TRUE, rows |-> <<>>, sent |-> FALSE]}
    ELSE IF fault = "query"
      THEN {[ok |-> TRUE, rows |-> <<>>, sent |-> TRUE]}
    ELSE {IF r.ok THEN [ok |-> TRUE, rows |-> r.rows, sent |-> TRUE]
          ELSE [ok |-> TRUE, rows |-> <<>>, sent |-> TRUE] :
            r \in Evaluate(data, stmt, params)}

executeQuery(data, fault, stmt, params) ==
    IF fault = "connect"
      THEN {[ok |-> FALSE, error |-> ConnectError, sent |-> FALSE]}
    ELSE IF fault = "query"
      THEN {[ok |-> FALSE, error |-> QueryError, sent |-> TRUE]}
    ELSE {IF r.ok THEN [ok |-> TRUE, rows |-> r.rows, sent |-> TRUE]
          ELSE [ok |-> FALSE, error |-> r.error, sent |-> TRUE] :
            r \in Evaluate(data, stmt, params)}

Sent(stmt, params, r) == IF r.sent THEN <<[stmt |-> stmt, params |-> params]>> ELSE <<>>

(***************************************************************************)
(* getMonsters (tools/monsters.js).                                        *)
(***************************************************************************)
NotInitialized == JsError("Database pool not initialized. Call initialize() first.")

Failure(error) == [status |-> "error", error |-> error]

\* The clamp without its upper end.
SafeLimitNoMax(limit) == Max(1, limit)

\* Math.min(Math.max(1, limit), 50)
SafeLimit(limit) == Min(Max(1, limit), MaxPageSize)

\* Every filter compared with the first parameter.
AddFilterFirstPlaceholder(acc, value, col) ==
    IF Truthy(value)
      THEN [params |-> Append(acc.params, SqlText(value[1])),
            where |-> Append(acc.where, [col |-> col, op |-> "=", ph |-> 1])]
      ELSE acc

\* if (filters.x) { queryParams.push(filters.x); query += ` AND col = $n` }
AddFilter(acc, value, col) ==
    IF Truthy(value)
      THEN [params |-> Append(acc.params, SqlText(value[1])),
            where |-> Append(acc.where,
                             [col |-> col, op |-> "=", ph |-> Len(acc.params) + 1])]
      ELSE acc

validSortFields == {"name", "category", "habitat", "rarity"}

\* String.prototype.toLowerCase on the direction strings of the model.
ToLowerCase(s) == IF s \in {"DESC", "Desc"} THEN "desc" ELSE s

TieBreak == [col |-> Col("m", "monster_id"), dir |-> "ASC"]

\* The ORDER BY clause without the tie-breaker.
SortClauseNoTieBreak(sort) ==
    IF Truthy(sort.field)
      THEN <<[col |-> Col("m", IF sort.field[1] \in validSortFields
                                 THEN sort.field[1] ELSE "name"),
              dir |-> IF sort.direction # <<>> /\ ToLowerCase(sort.direction[1]) = "desc"
                        THEN "DESC" ELSE "ASC"]>>
      ELSE <<[col |-> Col("m", "name"), dir |-> "ASC"]>>

\* The ORDER BY clause getMonsters appends.
SortClause(sort) ==
    IF Truthy(sort.field)
      THEN LET sortField == IF sort.field[1] \in validSortFields
                              THEN sort.field[1] ELSE "name"
               sortDirection == IF sort.direction # <<>>
                                     /\ ToLowerCase(sort.direction[1]) = "desc"
                                  THEN "DESC" ELSE "ASC"
           IN <<[col |-> Col("m", sortField), dir |-> sortDirection], TieBreak>>
      ELSE <<[col |-> Col("m", "name"), dir |-> "ASC"], TieBreak>>

\* The two page parameters pushed in the wrong order.
PageParamsSwapped(limit, offset) == <<SqlInt(offset), SqlInt(Min(Max(1, limit), MaxPageSize))>>

\* queryParams.push(safeLimit, offset)
PageParams(limit, offset) == <<SqlInt(SafeLimit(limit)), SqlInt(offset)>>

\* The statement with the limit written into its text.
GetMonstersQueryInlineLimit(params) ==
    LET filters == params.filters
        limit == OrDefault(params.limit, DefaultLimit)
        offset == OrDefault(params.offset, 0)
        f1 == AddFilter([params |-> <<>>, where |-> <<>>],
                        filters.category, Col("c", "category_name"))
        f2 == AddFilter(f1, filters.habitat, Col("m", "habitat"))
        f3 == AddFilter(f2, filters.biome, Col("m", "biome"))
        f4 == AddFilter(f3, filters.rarity, Col("m", "rarity"))
    IN [stmt |-> [from |-> "monsters",
                  where |-> f4.where,
                  orderBy |-> SortClause(params.sort),
                  limit |-> <<[lit |-> SafeLimit(limit)]>>,
                  offset |-> <<[ph |-> Len(f4.params) + 1]>>],
        params |-> Append(f4.params, SqlInt(offset))]

\* The statement and parameter array getMonsters builds.
GetMonstersQuery(params) ==
    LET filters == params.filters
        limit == OrDefault(params.limit, DefaultLimit)
        offset == OrDefault(params.offset, 0)
        f1 == AddFilter([params |-> <<>>, where |-> <<>>],
                        filters.category, Col("c", "category_name"))
        f2 == AddFilter(f1, filters.habitat, Col("m", "habitat"))
        f3 == AddFilter(f2, filters.biome, Col("m", "biome"))
        f4 == AddFilter(f3, filters.rarity, Col("m", "rarity"))
    IN [stmt |-> [from |-> "monsters",
                  where |-> f4.where,
                  orderBy |-> SortClause(params.sort),
                  limit |-> <<[ph |-> Len(f4.params) + 1]>>,
                  offset |-> <<[ph |-> Len(f4.params) + 2]>>],
        params |-> f4.params \o PageParams(limit, offset)]

\* The creature summary every list handler maps a row to.
Creature(row) ==
    [id |-> row.monster_id.v, name |-> row.name.v, category |-> row.category_name.v,
     subcategory |-> row.subcategory_name.v, habitat |-> row.habitat.v,
     biome |-> row.biome.v, rarity |-> row.rarity.v]

MapRows(rows, F(_)) == [i \in 1..Len(rows) |-> F(rows[i])]

GetMonstersPayload(params, monsters) ==
    [status |-> "ok",
     data |-> MapRows(monsters, Creature),
     summary |-> "Found " \o ToString(Len(monsters)) \o " monsters"
                  \o (IF Truthy(params.filters.category)
                        THEN " in category '" \o params.filters.category[1] \o "'"
                        ELSE "")
                  \o (IF Truthy(params.filters.habitat)
                        THEN " in habitat '" \o params.filters.habitat[1] \o "'"
                        ELSE "")
                  \o ".",
     source |-> "RAGmonsters DB",
     policy |-> "Data retrieved from official RAGmonsters catalog.",
     next |-> IF Len(monsters) > 0
                THEN <<"getMonsterById({ monsterId: "
                         \o ToString(monsters[1].monster_id.v) \o " })">>
                ELSE <<>>]

\* The outcomes of getMonsters(params): the response and the statements sent.
getMonsters(data, pool, params, fault) ==
    IF ~pool THEN {[resp |-> Failure(NotInitialized), queries |-> <<>>]}
    ELSE LET q == GetMonstersQuery(params) IN
         {[resp |-> IF r.ok THEN GetMonstersPayload(params, r.rows)
                    ELSE Failure(r.error),
           queries |-> Sent(q.stmt, q.params, r)] :
            r \in executeQuery(data, fault, q.stmt, q.params)}

(***************************************************************************)
(* The getMonsters tool as registered (tools/index.js): the server parses  *)
(* the arguments with the zod schema before it calls execute.  An object   *)
(* schema drops the keys it does not declare, so offset never reaches the  *)
(* handler through the tool.                                               *)
(***************************************************************************)
CategoryEnum ==
    {"Anomaly/Phenomenon", "Aquatic", "Celestial/Cosmic", "Construct/Artificial",
     "Elemental", "Nature/Organic", "Spirit/Ethereal"}
RarityEnum == {"Common", "Uncommon", "Rare", "Very Rare", "Extremely Rare"}

InEnum(o, enum) == o = <<>> \/ o[1] \in enum

\* The schema with rarity a free string.
GetMonstersSchemaFreeRarity(args) ==
    /\ InEnum(args.filters.category, CategoryEnum)
    /\ InEnum(args.sort.direction, {"asc", "desc"})
    /\ (args.limit = <<>> \/ args.limit[1] >= 1)

GetMonstersSchemaAccepts(args) ==
    /\ InEnum(args.filters.category, CategoryEnum)
    /\ InEnum(args.filters.rarity, RarityEnum)
    /\ InEnum(args.sort.direction, {"asc", "desc"})
    /\ (args.limit = <<>> \/ args.limit[1] >= 1)

GetMonstersSchemaParse(args) == [args EXCEPT !.offset = <<>>]

InvalidParams(tool) ==
    [name |-> "McpError", code |-> "InvalidParams",
     message |-> "Invalid " \o tool \o " parameters"]

getMonstersTool(data, pool, args, fault) ==
    IF GetMonstersSchemaAccepts(args)
      THEN getMonsters(data, pool, GetMonstersSchemaParse(args), fault)
      ELSE {[resp |-> Failure(InvalidParams("getMonsters")), queries |-> <<>>]}

(***************************************************************************)
(* The requests the model makes of getMonsters.                            *)
(***************************************************************************)
ListFilters ==
    [category : {<<>>, <<"Aquatic">>, <<"Dragon">>},
     habitat : {<<>>, <<"">>, <<"Cave">>},
     biome : {<<>>, <<"Reef">>},
     rarity : {<<>>, <<"Rare">>, <<"Mythic">>}]
ListSorts ==
    [field : {<<>>, <<"">>, <<"name">>, <<"category">>, <<"habitat">>, <<"rarity">>,
              <<"power">>},
     direction : {<<>>, <<"desc">>}]
ListArgs ==
    [filters : ListFilters, sort : ListSorts,
     limit : {<<>>, <<2>>}, offset : {<<>>, <<1>>}]

Request(tool, via, args) == [tool |-> tool, via |-> via, args |-> args]
ListRequests == {Request("getMonsters", via, args) :
                   via \in {"tool", "direct"}, args \in ListArgs}

NoResponse == [status |-> "none"]

(***************************************************************************)
(* The handlers keep nothing between invocations: the store and dbPool are *)
(* all an invocation reads.  A behaviour therefore studies one request,    *)
(* drawn at the start, which may be invoked any number of times.           *)
(***************************************************************************)
NoFault == [kind |-> "none"]
\* An invocation made while the store refuses connections or statements.
Under(fault) == [kind |-> fault]

\* let cachedCategories = null; let cachedSubcategories = null; let cachedHabitats = null
NoResources ==
    [dbPool |-> FALSE, categories |-> <<>>, subcategories |-> <<>>, habitats |-> <<>>,
     loads |-> 0]

Start(datasets, requests) ==
    /\ db \in datasets
    /\ req \in requests
    /\ dbPool = FALSE
    /\ resp = NoResponse
    /\ queries = <<>>
    /\ injected = NoFault
    /\ res = NoResources
    /\ calls = <<>>

\* initializeTools(pool), called by createMCPServer before the tools are registered.
initializeTools ==
    /\ ~dbPool
    /\ dbPool' = TRUE
    /\ UNCHANGED <<db, req, resp, queries, injected, res, calls>>

Respond(outcomes) ==
    \E o \in outcomes :
        /\ resp' = o.resp
        /\ queries' = o.queries
        /\ UNCHANGED <<db, dbPool, req, res, calls>>

\* A getMonsters call through the server, which exists once createMCPServer ran.
CallGetMonstersTool ==
    /\ req.tool = "getMonsters" /\ req.via = "tool"
    /\ dbPool
    /\ \E fault \in Faults :
          /\ injected' = Under(fault)
          /\ Respond(getMonstersTool(db, dbPool, req.args, fault))

\* A direct call of the exported function, as scripts/testTools.js makes.
CallGetMonsters ==
    /\ req.tool = "getMonsters" /\ req.via = "direct"
    /\ \E fault \in Faults :
          /\ injected' = Under(fault)
          /\ Respond(getMonsters(db, dbPool, req.args, fault))

Init == Start(SmallDatasets, ListRequests)

Next == initializeTools \/ CallGetMonstersTool \/ CallGetMonsters

\* getMonsters over the small datasets, with every combination of filters and sorts.
Spec == Init /\ [][Next]_vars

(***************************************************************************)
(* Paging: getMonsters over the small and the large dataset, with limits   *)
(* and offsets around the clamp.                                           *)
(***************************************************************************)
NoFilters == [category |-> <<>>, habitat |-> <<>>, biome |-> <<>>, rarity |-> <<>>]
NoSort == [field |-> <<>>, direction |-> <<>>]

PageArgs ==
    [filters : {NoFilters, [NoFilters EXCEPT !.habitat = <<"Cave">>]},
     sort : {NoSort},
     limit : {<<>>, <<-1>>, <<0>>, <<1>>, <<2>>, <<50>>, <<51>>, <<100>>},
     offset : {<<>>, <<1>>, <<3>>}]
PageRequests == {Request("getMonsters", via, args) :
                   via \in {"tool", "direct"}, args \in PageArgs}

InitPage == Start(SmallDatasets \cup {BigDataset}, PageRequests)

SpecPage == InitPage /\ [][Next]_vars

(***************************************************************************)
(* getMonsterById (tools/monsters.js): five statements one after the       *)
(* other; the first error ends the invocation, and every error, the        *)
(* handler's own included, is rethrown as a plain Error with a prefixed    *)
(* message.                                                                *)
(***************************************************************************)
RECURSIVE Text(_)
\* The string a sequence of characters stands for.
Text(chars) == IF chars = <<>> THEN "" ELSE chars[1] \o Text(Tail(chars))

\* catch (error) { throw new Error(`Failed to retrieve monster details: ...`) }
DetailsError(error) == JsError("Failed to retrieve monster details: " \o error.message)

ById(from, col, orderBy, monsterId) ==
    [stmt |-> [from |-> from,
               where |-> <<[col |-> col, op |-> "=", ph |-> 1]>>,
               orderBy |-> orderBy, limit |-> <<>>, offset |-> <<>>],
     params |-> <<SqlInt(monsterId)>>]

monsterQuery(monsterId) == ById("monsters", Col("m", "monster_id"), <<>>, monsterId)

abilitiesQuery(monsterId) ==
    ById("keyword_abilities", Col("qs", "monster_id"),
         <<[col |-> Col("k", "keyword_name"), dir |-> "ASC"],
           [col |-> Col("a", "ability_name"), dir |-> "ASC"]>>, monsterId)

flawsQuery(monsterId) ==
    ById("stat_flaws", Col("qs", "monster_id"),
         <<[col |-> Col("f", "rating"), dir |-> "DESC"]>>, monsterId)

strengthsQuery(monsterId) == ById("augments", Col("", "monster_id"), <<>>, monsterId)

weaknessesQuery(monsterId) == ById("hindrances", Col("", "monster_id"), <<>>, monsterId)

\* The statements after the first: const x = await executeQuery(...), four times.
RECURSIVE RunQueries(_, _, _, _)
RunQueries(data, qs, faultAt, kind) ==
    IF qs = <<>> THEN {[ok |-> TRUE, rows |-> <<>>, queries |-> <<>>]}
    ELSE LET q == qs[1]
             fault == IF faultAt = 1 THEN kind ELSE "none"
         IN UNION {IF ~r.ok
                     THEN {[ok |-> FALSE, error |-> r.error,
                            queries |-> Sent(q.stmt, q.params, r)]}
                     ELSE {IF t.ok
                             THEN [ok |-> TRUE, rows |-> <<r.rows>> \o t.rows,
                                   queries |-> Sent(q.stmt, q.params, r) \o t.queries]
                             ELSE [ok |-> FALSE, error |-> t.error,
                                   queries |-> Sent(q.stmt, q.params, r) \o t.queries] :
                            t \in RunQueries(data, Tail(qs), faultAt - 1, kind)} :
                   r \in executeQuery(data, fault, q.stmt, q.params)}

\* The own properties of keywordAbilities after abilities.forEach, in the
\* order they were created.
RECURSIVE GroupByKeyword(_, _)
GroupByKeyword(abilities, acc) ==
    IF abilities = <<>> THEN acc
    ELSE LET item == abilities[1]
             key == item.keyword_name.v
             created == IF \E i \in 1..Len(acc) : acc[i].key = key THEN acc
                        ELSE Append(acc, [key |-> key,
                                          value |-> [name |-> key, rating |-> item.rating.v,
                                                     abilities |-> <<>>]])
             j == CHOOSE i \in 1..Len(created) : created[i].key = key
         IN GroupByKeyword(Tail(abilities),
              [created EXCEPT ![j].value.abilities =
                  Append(@, [name |-> item.ability_name.v,
                             mastery |-> item.mastery_value.v])])

\* The array index a property key is, if it is one (of the strings of the model).
ArrayIndex(key) ==
    CASE key = "7" -> <<7>> [] key = "9" -> <<9>> [] key = "10" -> <<10>> [] OTHER -> <<>>

\* Object.values: array-index keys first, ascending, then the others as created.
ObjectValues(entries) ==
    LET IsIndex(e) == ArrayIndex(e.key) # <<>>
        IsName(e) == ArrayIndex(e.key) = <<>>
        ByIndex(e, f) == ArrayIndex(e.key)[1] < ArrayIndex(f.key)[1]
        ordered == SortSeq(SelectSeq(entries, IsIndex), ByIndex) \o SelectSeq(entries, IsName)
    IN [i \in 1..Len(ordered) |-> ordered[i].value]

Flaw(flaw) == [name |-> flaw.flaw_name.v, rating |-> flaw.rating.v]
Edge(row) == [target |-> row.target_name.v, modifier |-> row.modifier.v]

\* The related lists with an empty one left undefined, which JSON.stringify omits.
RelatedListsOmitEmpty(abilities, flaws, strengths, weaknesses) ==
    LET NonEmpty(field) ==
            [f \in (IF field.v = <<>> THEN {} ELSE {field.k}) |-> field.v]
    IN NonEmpty([k |-> "keywords", v |-> ObjectValues(GroupByKeyword(abilities, <<>>))])
       @@ NonEmpty([k |-> "flaws", v |-> MapRows(flaws, Flaw)])
       @@ NonEmpty([k |-> "strengths", v |-> MapRows(strengths, Edge)])
       @@ NonEmpty([k |-> "weaknesses", v |-> MapRows(weaknesses, Edge)])

\* keywords, flaws, strengths and weaknesses of the detail payload.
RelatedLists(abilities, flaws, strengths, weaknesses) ==
    [keywords |-> ObjectValues(GroupByKeyword(abilities, <<>>)),
     flaws |-> MapRows(flaws, Flaw),
     strengths |-> MapRows(strengths, Edge),
     weaknesses |-> MapRows(weaknesses, Edge)]

DetailPayload(monster, abilities, flaws, strengths, weaknesses) ==
    [status |-> "ok",
     data |-> [id |-> monster.monster_id.v, name |-> monster.name.v,
               category |-> monster.category_name.v,
               subcategory |-> monster.subcategory_name.v,
               habitat |-> monster.habitat.v, biome |-> monster.biome.v,
               rarity |-> monster.rarity.v]
              @@ RelatedLists(abilities, flaws, strengths, weaknesses),
     summary |-> Text(monster.name.v) \o " is a " \o monster.rarity.v \o " "
                   \o monster.subcategory_name.v \o " (" \o monster.category_name.v
                   \o ") monster found in " \o monster.habitat.v \o ".",
     source |-> "RAGmonsters DB",
     policy |-> "Detailed specimen data from field research logs."]

\* The outcomes of getMonsterById(params); the fault, if any, strikes the
\* faultAt-th executeQuery call.
getMonsterByIdPartial(data, pool, params, faultAt, kind) ==
    IF ~pool THEN {[resp |-> Failure(DetailsError(NotInitialized)), queries |-> <<>>]}
    ELSE IF params.monsterId = <<>> \/ params.monsterId[1] = 0
      THEN {[resp |-> Failure(DetailsError(JsError("Monster ID is required"))),
             queries |-> <<>>]}
    ELSE LET monsterId == params.monsterId[1]
             q == monsterQuery(monsterId)
             rest == <<abilitiesQuery(monsterId), flawsQuery(monsterId),
                       strengthsQuery(monsterId), weaknessesQuery(monsterId)>>
         IN UNION {
              IF ~r.ok
                THEN {[resp |-> Failure(DetailsError(r.error)),
                       queries |-> Sent(q.stmt, q.params, r)]}
              ELSE IF Len(r.rows) = 0
                THEN {[resp |-> Failure(DetailsError(JsError(
                                  "Monster with ID " \o ToString(monsterId) \o " not found"))),
                       queries |-> Sent(q.stmt, q.params, r)]}
              ELSE {[resp |-> IF t.ok
                                THEN DetailPayload(r.rows[1], t.rows[1], t.rows[2],
                                                   t.rows[3], t.rows[4])
                                ELSE DetailPayload(r.rows[1], <<>>, <<>>, <<>>, <<>>),
                     queries |-> Sent(q.stmt, q.params, r) \o t.queries] :
                      t \in RunQueries(data, rest, faultAt - 1, kind)} :
              r \in executeQuery(data, IF faultAt = 1 THEN kind ELSE "none",
                                 q.stmt, q.params)}

getMonsterById(data, pool, params, faultAt, kind) ==
    IF ~pool THEN {[resp |-> Failure(DetailsError(NotInitialized)), queries |-> <<>>]}
    ELSE IF params.monsterId = <<>> \/ params.monsterId[1] = 0
      THEN {[resp |-> Failure(DetailsError(JsError("Monster ID is required"))),
             queries |-> <<>>]}
    ELSE LET monsterId == params.monsterId[1]
             q == monsterQuery(monsterId)
             rest == <<abilitiesQuery(monsterId), flawsQuery(monsterId),
                       strengthsQuery(monsterId), weaknessesQuery(monsterId)>>
         IN UNION {
              IF ~r.ok
                THEN {[resp |-> Failure(DetailsError(r.error)),
                       queries |-> Sent(q.stmt, q.params, r)]}
              ELSE IF Len(r.rows) = 0
                THEN {[resp |-> Failure(DetailsError(JsError(
                                  "Monster with ID " \o ToString(monsterId) \o " not found"))),
                       queries |-> Sent(q.stmt, q.params, r)]}
              ELSE {[resp |-> IF t.ok
                                THEN DetailPayload(r.rows[1], t.rows[1], t.rows[2],
                                                   t.rows[3], t.rows[4])
                                ELSE Failure(DetailsError(t.error)),
                     queries |-> Sent(q.stmt, q.params, r) \o t.queries] :
                      t \in RunQueries(data, rest, faultAt - 1, kind)} :
              r \in executeQuery(data, IF faultAt = 1 THEN kind ELSE "none",
                                 q.stmt, q.params)}

\* The tool as registered: parameters z.object({ monsterId: z.number() }).
getMonsterByIdTool(data, pool, args, faultAt, kind) ==
    IF args.monsterId # <<>>
      THEN getMonsterById(data, pool, args, faultAt, kind)
      ELSE {[resp |-> Failure(InvalidParams("getMonsterById")), queries |-> <<>>]}

ByIdRequests ==
    {Request("getMonsterById", via, [monsterId |-> id]) :
       via \in {"tool", "direct"}, id \in {<<>>, <<0>>, <<1>>, <<2>>, <<9>>}}

\* Where a fault may strike: no call (0), or one of the five executeQuery calls.
FaultPoints == {<<0, "none">>} \cup ((1..5) \X {"connect", "query"})

CallGetMonsterByIdTool ==
    /\ req.tool = "getMonsterById" /\ req.via = "tool"
    /\ dbPool
    /\ \E f \in FaultPoints :
          /\ injected' = Under(f[2])
          /\ Respond(getMonsterByIdTool(db, dbPool, req.args, f[1], f[2]))

CallGetMonsterById ==
    /\ req.tool = "getMonsterById" /\ req.via = "direct"
    /\ \E f \in FaultPoints :
          /\ injected' = Under(f[2])
          /\ Respond(getMonsterById(db, dbPool, req.args, f[1], f[2]))

InitById == Start(DetailDatasets, ByIdRequests)

NextById == initializeTools \/ CallGetMonsterByIdTool \/ CallGetMonsterById

\* getMonsterById over the stores with detail rows.
SpecById == InitById /\ [][NextById]_vars

(***************************************************************************)
(* getMonsterByName (tools/monsters.js).                                   *)
(***************************************************************************)
\* catch (error) { throw new Error(`Failed to retrieve monster by name: ...`) }
ByNameError(error) == JsError("Failed to retrieve monster by name: " \o error.message)

\* `%${name}%`
NamePattern(name) == <<"%">> \o name \o <<"%">>

NameQuery(name) ==
    [stmt |-> [from |-> "monsters",
               where |-> <<[col |-> Col("m", "name"), op |-> "LOWER LIKE LOWER", ph |-> 1]>>,
               orderBy |-> <<[col |-> Col("m", "name"), dir |-> "ASC"]>>,
               limit |-> <<[lit |-> NameMatchLimit]>>, offset |-> <<>>],
     params |-> <<SqlChars(NamePattern(name))>>]

NameMatch(row) ==
    [id |-> row.monster_id.v, name |-> row.name.v, category |-> row.category_name.v,
     subcategory |-> row.subcategory_name.v, habitat |-> row.habitat.v,
     rarity |-> row.rarity.v]

NamePayload(name, monsters) ==
    IF Len(monsters) = 0
      THEN [status |-> "ok", found |-> FALSE,
            message |-> "No monsters found with name: " \o Text(name)]
      ELSE [status |-> "ok", found |-> TRUE, count |-> Len(monsters),
            monsters |-> MapRows(monsters, NameMatch)]

getMonsterByName(data, pool, params, fault) ==
    IF ~pool THEN {[resp |-> Failure(ByNameError(NotInitialized)), queries |-> <<>>]}
    ELSE IF params.name = <<>> \/ params.name[1] = <<>>
      THEN {[resp |-> Failure(ByNameError(JsError("Monster name is required"))),
             queries |-> <<>>]}
    ELSE LET name == params.name[1]
             q == NameQuery(name)
         IN {[resp |-> IF r.ok THEN NamePayload(name, r.rows)
                       ELSE Failure(ByNameError(r.error)),
              queries |-> Sent(q.stmt, q.params, r)] :
               r \in executeQuery(data, fault, q.stmt, q.params)}

\* The tool as registered: parameters z.object({ name: z.string() }).
getMonsterByNameTool(data, pool, args, fault) ==
    IF args.name # <<>>
      THEN getMonsterByName(data, pool, args, fault)
      ELSE {[resp |-> Failure(InvalidParams("getMonsterByName")), queries |-> <<>>]}

MaxNameLen == 2         \* search strings hold at most MaxNameLen characters
NameSize == 7           \* the dataset with more than five matches holds ids 1..NameSize

SearchChars == {"a", "B", "_", "%"}
SearchStrings == UNION {[1..n -> SearchChars] : n \in 0..MaxNameLen}

ByNameRequests ==
    {Request("getMonsterByName", via, [name |-> name]) :
       via \in {"tool", "direct"}, name \in {<<>>} \cup {<<s>> : s \in SearchStrings}}

CallGetMonsterByNameTool ==
    /\ req.tool = "getMonsterByName" /\ req.via = "tool"
    /\ dbPool
    /\ \E fault \in Faults :
          /\ injected' = Under(fault)
          /\ Respond(getMonsterByNameTool(db, dbPool, req.args, fault))

CallGetMonsterByName ==
    /\ req.tool = "getMonsterByName" /\ req.via = "direct"
    /\ \E fault \in Faults :
          /\ injected' = Under(fault)
          /\ Respond(getMonsterByName(db, dbPool, req.args, fault))

InitByName == Start(SmallDatasets \cup {Dataset(1..NameSize)}, ByNameRequests)

NextByName == initializeTools \/ CallGetMonsterByNameTool \/ CallGetMonsterByName

\* getMonsterByName over the small datasets and one with more than five matches.
SpecByName == InitByName /\ [][NextByName]_vars

(***************************************************************************)
(* compareMonsters (tools/monsters.js): one statement for both names, the  *)
(* two creatures picked from its rows; errors are rethrown as they are.    *)
(***************************************************************************)
CompareNotInitialized == JsError("Database pool not initialized.")

CompareQuery(monsterNameA, monsterNameB) ==
    [stmt |-> [from |-> "monsters",
               where |-> <<[col |-> Col("m", "name"), op |-> "LOWER IN LOWER", ph |-> 1]>>,
               orderBy |-> <<>>, limit |-> <<>>, offset |-> <<>>],
     params |-> <<SqlChars(monsterNameA), SqlChars(monsterNameB)>>]

\* The first row with exactly this name.
FindCaseSensitive(results, name) ==
    LET hits == {i \in 1..Len(results) : results[i].name.v = name}
    IN IF hits = {} THEN <<>>
       ELSE <<results[CHOOSE i \in hits : \A j \in hits : i <= j]>>

\* results.find(m => m.name.toLowerCase() === name.toLowerCase()): the first
\* such row, or undefined.
Find(results, name) ==
    LET hits == {i \in 1..Len(results) : Lower(results[i].name.v) = Lower(name)}
    IN IF hits = {} THEN <<>>
       ELSE <<results[CHOOSE i \in hits : \A j \in hits : i <= j]>>

\* The object literal { [a]: x, [b]: y } \cup rest: a later key replaces an
\* equal earlier one.
Keyed(a, x, b, y, rest) == rest @@ (Text(b) :> y) @@ (Text(a) :> x)

Comparison(monsterA, monsterB) ==
    LET a == monsterA.name.v
        b == monsterB.name.v
        Field(column) ==
            Keyed(a, monsterA[column].v, b, monsterB[column].v,
                  [match |-> monsterA[column].v = monsterB[column].v])
        same == monsterA.category_name.v = monsterB.category_name.v
    IN [status |-> "ok",
        monsters |-> <<a, b>>,
        comparison |-> [category |-> Field("category_name"),
                        subcategory |-> Field("subcategory_name"),
                        habitat |-> Field("habitat"),
                        rarity |-> Field("rarity")],
        summary |-> "Comparison between " \o Text(a) \o " and " \o Text(b)
                      \o ". They are both "
                      \o (IF same THEN "in the same category" ELSE "in different categories")
                      \o " (" \o monsterA.category_name.v \o " vs "
                      \o monsterB.category_name.v \o ").",
        source |-> "RAGmonsters DB",
        next |-> <<"getMonsterById({ monsterId: " \o ToString(monsterA.monster_id.v) \o " })",
                   "getMonsterById({ monsterId: " \o ToString(monsterB.monster_id.v) \o " })">>]

NameNotFound(name) == JsError("Monster '" \o Text(name) \o "' not found.")

compareMonsters(data, pool, params, fault) ==
    IF ~pool THEN {[resp |-> Failure(CompareNotInitialized), queries |-> <<>>]}
    ELSE IF \/ params.monsterNameA = <<>> \/ params.monsterNameA[1] = <<>>
            \/ params.monsterNameB = <<>> \/ params.monsterNameB[1] = <<>>
      THEN {[resp |-> Failure(JsError("Both monsterNameA and monsterNameB are required.")),
             queries |-> <<>>]}
    ELSE LET monsterNameA == params.monsterNameA[1]
             monsterNameB == params.monsterNameB[1]
             q == CompareQuery(monsterNameA, monsterNameB)
         IN {[resp |-> IF ~r.ok THEN Failure(r.error)
                       ELSE LET monsterA == Find(r.rows, monsterNameA)
                                monsterB == Find(r.rows, monsterNameB)
                            IN IF monsterA = <<>> THEN Failure(NameNotFound(monsterNameA))
                               ELSE IF monsterB = <<>>
                                 THEN Failure(NameNotFound(monsterNameB))
                               ELSE Comparison(monsterA[1], monsterB[1]),
              queries |-> Sent(q.stmt, q.params, r)] :
               r \in executeQuery(data, fault, q.stmt, q.params)}

\* The tool as registered: both names z.string().
compareMonstersTool(data, pool, args, fault) ==
    IF args.monsterNameA # <<>> /\ args.monsterNameB # <<>>
      THEN compareMonsters(data, pool, args, fault)
      ELSE {[resp |-> Failure(InvalidParams("compareMonsters")), queries |-> <<>>]}

CompareNames ==
    {<<>>, <<<<>>>>, <<<<"A", "b">>>>, <<<<"a", "b">>>>, <<<<"B", "A">>>>, <<<<"a">>>>}

CompareRequests ==
    {Request("compareMonsters", via, [monsterNameA |-> a, monsterNameB |-> b]) :
       via \in {"tool", "direct"}, a \in CompareNames, b \in CompareNames}

CallCompareMonstersTool ==
    /\ req.tool = "compareMonsters" /\ req.via = "tool"
    /\ dbPool
    /\ \E fault \in Faults :
          /\ injected' = Under(fault)
          /\ Respond(compareMonstersTool(db, dbPool, req.args, fault))

CallCompareMonsters ==
    /\ req.tool = "compareMonsters" /\ req.via = "direct"
    /\ \E fault \in Faults :
          /\ injected' = Under(fault)
          /\ Respond(compareMonsters(db, dbPool, req.args, fault))

InitCompare == Start(SmallDatasets, CompareRequests)

NextCompare == initializeTools \/ CallCompareMonstersTool \/ CallCompareMonsters

\* compareMonsters over the small datasets.
SpecCompare == InitCompare /\ [][NextCompare]_vars

(***************************************************************************)
(* getMonsterByHabitat (tools/monsters.js).  Its limit goes to the store   *)
(* as the caller gave it, so the model keeps the JavaScript value: a       *)
(* number that is an integer, a number with a fractional part, a string.   *)
(***************************************************************************)
JsNumber(n) == [type |-> "number", int |-> n, half |-> FALSE, text |-> ToString(n)]
\* The number n + 0.5.
JsHalf(n) == [type |-> "number", int |-> n, half |-> TRUE, text |-> ToString(n) \o ".5"]
JsString(s) == [type |-> "string", int |-> 0, half |-> FALSE, text |-> s]

\* The value as the store reads it for LIMIT: an integer, or text it cannot
\* read as one.
LimitParam(v) == IF v.type = "number" /\ ~v.half THEN SqlInt(v.int) ELSE SqlText(v.text)

\* catch (error) { throw new Error(`Failed to retrieve monsters by habitat: ...`) }
HabitatError(error) ==
    JsError("Failed to retrieve monsters by habitat: " \o error.message)

HabitatQuery(habitat, limit) ==
    [stmt |-> [from |-> "monsters",
               where |-> <<[col |-> Col("m", "habitat"), op |-> "=", ph |-> 1]>>,
               orderBy |-> <<[col |-> Col("m", "name"), dir |-> "ASC"]>>,
               limit |-> <<[ph |-> 2]>>, offset |-> <<>>],
     params |-> <<SqlText(habitat), LimitParam(limit)>>]

HabitatPayload(habitat, monsters) ==
    [status |-> "ok", monsters |-> MapRows(monsters, NameMatch), habitat |-> habitat,
     count |-> Len(monsters)]

getMonsterByHabitat(data, pool, params, fault) ==
    IF ~pool THEN {[resp |-> Failure(HabitatError(NotInitialized)), queries |-> <<>>]}
    ELSE IF ~Truthy(params.habitat)
      THEN {[resp |-> Failure(HabitatError(JsError("Habitat parameter is required"))),
             queries |-> <<>>]}
    ELSE LET habitat == params.habitat[1]
             limit == OrDefault(params.limit, JsNumber(DefaultHabitatLimit))
             q == HabitatQuery(habitat, limit)
         IN {[resp |-> IF r.ok THEN HabitatPayload(habitat, r.rows)
                       ELSE Failure(HabitatError(r.error)),
              queries |-> Sent(q.stmt, q.params, r)] :
               r \in executeQuery(data, fault, q.stmt, q.params)}

\* The tool as registered: habitat z.string(), limit z.number().optional().
HabitatSchemaAccepts(args) ==
    /\ args.habitat # <<>>
    /\ args.limit = <<>> \/ args.limit[1].type = "number"

getMonsterByHabitatTool(data, pool, args, fault) ==
    IF HabitatSchemaAccepts(args)
      THEN getMonsterByHabitat(data, pool, args, fault)
      ELSE {[resp |-> Failure(InvalidParams("getMonsterByHabitat")), queries |-> <<>>]}

\* A creature of the crowded dataset: in the cave, its name i letters long.
CaveRow(i) ==
    [MonsterRow(i) EXCEPT !.name = SqlChars([j \in 1..i |-> "a"]),
                          !.habitat = SqlText("Cave")]

\* More creatures in one habitat than a page may hold.
CrowdedDataset == [monsters |-> {CaveRow(i) : i \in 1..CrowdSize}] @@ NoDetails

HabitatLimits ==
    {<<>>, <<JsNumber(-1)>>, <<JsNumber(0)>>, <<JsNumber(2)>>, <<JsNumber(50)>>,
     <<JsNumber(100)>>, <<JsHalf(1)>>, <<JsString("ten")>>}

HabitatRequests ==
    {Request("getMonsterByHabitat", via, [habitat |-> h, limit |-> l]) :
       via \in {"tool", "direct"},
       h \in {<<>>, <<"">>, <<"Cave">>, <<"Sea">>, <<"cave">>},
       l \in HabitatLimits}

CallGetMonsterByHabitatTool ==
    /\ req.tool = "getMonsterByHabitat" /\ req.via = "tool"
    /\ dbPool
    /\ \E fault \in Faults :
          /\ injected' = Under(fault)
          /\ Respond(getMonsterByHabitatTool(db, dbPool, req.args, fault))

CallGetMonsterByHabitat ==
    /\ req.tool = "getMonsterByHabitat" /\ req.via = "direct"
    /\ \E fault \in Faults :
          /\ injected' = Under(fault)
          /\ Respond(getMonsterByHabitat(db, dbPool, req.args, fault))

InitHabitat == Start(SmallDatasets \cup {CrowdedDataset}, HabitatRequests)

NextHabitat == initializeTools \/ CallGetMonsterByHabitatTool \/ CallGetMonsterByHabitat

\* getMonsterByHabitat over the small datasets and the crowded one.
SpecHabitat == InitHabitat /\ [][NextHabitat]_vars

(***************************************************************************)
(* The reference statements, which the resources module and the reference  *)
(* tools both send.                                                        *)
(***************************************************************************)
Asc(col) == [col |-> col, dir |-> "ASC"]

\* SELECT category_id, category_name FROM ragmonsters.categories ORDER BY category_name ASC
categoriesQuery ==
    [stmt |-> [from |-> "categories", where |-> <<>>,
               orderBy |-> <<Asc(Col("", "category_name"))>>,
               limit |-> <<>>, offset |-> <<>>],
     params |-> <<>>]

\* ... FROM subcategories s JOIN categories c [WHERE c.category_name = $1]
\* ORDER BY c.category_name ASC, s.subcategory_name ASC
subcategoriesQuery(categoryName) ==
    [stmt |-> [from |-> "subcategories",
               where |-> IF Truthy(categoryName)
                           THEN <<[col |-> Col("c", "category_name"), op |-> "=", ph |-> 1]>>
                           ELSE <<>>,
               orderBy |-> <<Asc(Col("c", "category_name")),
                             Asc(Col("s", "subcategory_name"))>>,
               limit |-> <<>>, offset |-> <<>>],
     params |-> IF Truthy(categoryName) THEN <<SqlText(categoryName[1])>> ELSE <<>>]

\* SELECT DISTINCT column FROM ragmonsters.monsters WHERE column IS NOT NULL
\* ORDER BY column ASC
distinctQuery(column) ==
    [stmt |-> [from |-> "distinct " \o column,
               where |-> <<[col |-> Col("", column), op |-> "IS NOT NULL", ph |-> 0]>>,
               orderBy |-> <<Asc(Col("", column))>>,
               limit |-> <<>>, offset |-> <<>>],
     params |-> <<>>]

(***************************************************************************)
(* The resources module (resources/monsters.js): initializeResources fills *)
(* three cached lists, each null until its statement has answered, and the *)
(* loaders format them.  res.loads counts the runs of initializeResources. *)
(***************************************************************************)
MaxLoads == 2

\* The three awaited executeQuery calls of initializeResources, in order: the
\* rows of those that answered, and whether all did.
RECURSIVE RunLoads(_, _, _, _)
RunLoads(data, qs, faultAt, kind) ==
    IF qs = <<>> THEN {[ok |-> TRUE, rows |-> <<>>]}
    ELSE LET q == qs[1]
             fault == IF faultAt = 1 THEN kind ELSE "none"
         IN UNION {IF ~r.ok
                     THEN {[ok |-> FALSE, rows |-> <<>>]}
                     ELSE {[ok |-> t.ok, rows |-> <<r.rows>> \o t.rows] :
                            t \in RunLoads(data, Tail(qs), faultAt - 1, kind)} :
                   r \in executeQuery(data, fault, q.stmt, q.params)}

CategoryName(c) == c.category_name.v
SubcategoryEntry(s) == [name |-> s.subcategory_name.v, category |-> s.category_name.v]
HabitatName(h) == h.habitat.v

\* The module state after initializeResources(pool): an assignment is made
\* when the statement before it has answered, and the error of one that has
\* not is rethrown, which leaves the later lists as they were.
ResourcesAfter(previous, loaded) ==
    [dbPool |-> TRUE,
     categories |-> IF Len(loaded) >= 1 THEN <<MapRows(loaded[1], CategoryName)>>
                    ELSE previous.categories,
     subcategories |-> IF Len(loaded) >= 2 THEN <<MapRows(loaded[2], SubcategoryEntry)>>
                       ELSE previous.subcategories,
     habitats |-> IF Len(loaded) >= 3 THEN <<MapRows(loaded[3], HabitatName)>>
                  ELSE previous.habitats,
     loads |-> previous.loads + 1]

LoadFaultPoints == {<<0, "none">>} \cup ((1..3) \X {"connect", "query"})

initializeResources ==
    /\ res.loads < MaxLoads
    /\ \E f \in LoadFaultPoints :
         \E o \in RunLoads(db, <<categoriesQuery, subcategoriesQuery(<<>>),
                                 distinctQuery("habitat")>>, f[1], f[2]) :
            res' = ResourcesAfter(res, o.rows)
    /\ UNCHANGED <<db, dbPool, req, resp, queries, injected, calls>>

RECURSIVE Join(_, _)
\* Array.prototype.join
Join(lines, sep) ==
    IF lines = <<>> THEN ""
    ELSE IF Len(lines) = 1 THEN lines[1]
    ELSE lines[1] \o sep \o Join(Tail(lines), sep)

Bullets(prefix, items) == Join([i \in 1..Len(items) |-> prefix \o items[i]], "\n")

CategoriesNotLoaded == "Categories not loaded. Server may not be fully initialized."
SubcategoriesNotLoaded == "Subcategories not loaded. Server may not be fully initialized."
HabitatsNotLoaded == "Habitats not loaded. Server may not be fully initialized."

\* A loader that takes a list without entries for one that was never loaded.
loadCategoriesEmptyIsNull(cachedCategories) ==
    [text |-> IF cachedCategories # <<>> /\ cachedCategories[1] # <<>>
                THEN "Monster Categories:\n" \o Bullets("- ", cachedCategories[1])
                ELSE CategoriesNotLoaded]

\* An array, empty or not, is truthy; null is not.
loadCategories(cachedCategories) ==
    [text |-> IF cachedCategories # <<>>
                THEN "Monster Categories:\n" \o Bullets("- ", cachedCategories[1])
                ELSE CategoriesNotLoaded]

\* byCategory after the for loop: its own properties in creation order.
RECURSIVE GroupByCategory(_, _)
GroupByCategory(subs, acc) ==
    IF subs = <<>> THEN acc
    ELSE LET sub == subs[1]
             created == IF \E i \in 1..Len(acc) : acc[i].key = sub.category THEN acc
                        ELSE Append(acc, [key |-> sub.category, value |-> <<>>])
             j == CHOOSE i \in 1..Len(created) : created[i].key = sub.category
         IN GroupByCategory(Tail(subs),
                            [created EXCEPT ![j].value = Append(@, sub.name)])

RECURSIVE SubcategoryText(_)
\* text += `\n${category}:\n`; text += subs.map(...).join('\n') + '\n'
SubcategoryText(entries) ==
    IF entries = <<>> THEN ""
    ELSE "\n" \o entries[1].key \o ":\n" \o Bullets("  - ", entries[1].value) \o "\n"
         \o SubcategoryText(Tail(entries))

loadSubcategories(cachedSubcategories) ==
    IF cachedSubcategories = <<>> THEN [text |-> SubcategoriesNotLoaded]
    ELSE [text |-> "Monster Subcategories:\n"
                   \o SubcategoryText(GroupByCategory(cachedSubcategories[1], <<>>))]

\* A loader that would ask the store again on every read.
loadHabitatsFresh(cachedHabitats) ==
    LET q == distinctQuery("habitat")
        r == CHOOSE x \in Evaluate(db, q.stmt, q.params) : TRUE
    IN [text |-> IF cachedHabitats # <<>>
                   THEN "Monster Habitats:\n" \o Bullets("- ", MapRows(r.rows, HabitatName))
                   ELSE HabitatsNotLoaded]

loadHabitats(cachedHabitats) ==
    [text |-> IF cachedHabitats # <<>>
                THEN "Monster Habitats:\n" \o Bullets("- ", cachedHabitats[1])
                ELSE HabitatsNotLoaded]

\* A resource read: the loader's result is the response.
Loaded(result) == {[resp |-> [status |-> "ok", text |-> result.text], queries |-> <<>>]}

ResourceRequests ==
    {Request(uri, "resource", <<>>) : uri \in {"categories", "subcategories", "habitats"}}

ReadCategories ==
    /\ req.tool = "categories"
    /\ injected' = NoFault
    /\ Respond(Loaded(loadCategories(res.categories)))

ReadSubcategories ==
    /\ req.tool = "subcategories"
    /\ injected' = NoFault
    /\ Respond(Loaded(loadSubcategories(res.subcategories)))

ReadHabitats ==
    /\ req.tool = "habitats"
    /\ injected' = NoFault
    /\ Respond(Loaded(loadHabitats(res.habitats)))

InitResources == Start(SmallDatasets, ResourceRequests)

NextResources == initializeResources \/ ReadCategories \/ ReadSubcategories \/ ReadHabitats

\* The resources module alone: loads, at any moment and with any fault, and reads.
SpecResources == InitResources /\ [][NextResources]_vars

(***************************************************************************)
(* The reference tools (tools/monsters.js): getCategories, getRarities,    *)
(* getSubcategories, getBiomes and getHabitats.  Each sends one statement  *)
(* and answers with a JSON array.                                          *)
(***************************************************************************)
\* if (!dbPool) throw new Error('Database pool not initialized')
PoolNotInitialized == JsError("Database pool not initialized")

\* JSON.stringify(result.map(...)): the response is the array itself.
ArrayPayload(items) == [status |-> "ok", array |-> items]

CategoryItem(r) == [id |-> r.category_id.v, name |-> r.category_name.v]
RarityItem(r) == r.rarity.v
BiomeItem(r) == r.biome.v
SubcategoryItem(r) ==
    [id |-> r.subcategory_id.v, name |-> r.subcategory_name.v,
     category |-> [id |-> r.category_id.v, name |-> r.category_name.v]]

\* A handler without the dbPool test, which goes on to the statement.
getCategoriesUnguarded(data, pool, fault) ==
    LET q == categoriesQuery
    IN {[resp |-> IF r.ok THEN ArrayPayload(MapRows(r.rows, CategoryItem))
                  ELSE Failure(r.error),
         queries |-> Sent(q.stmt, q.params, r)] :
          r \in executeQuery(data, fault, q.stmt, q.params)}

getCategories(data, pool, fault) ==
    IF ~pool THEN {[resp |-> Failure(PoolNotInitialized), queries |-> <<>>]}
    ELSE LET q == categoriesQuery
         IN {[resp |-> IF r.ok THEN ArrayPayload(MapRows(r.rows, CategoryItem))
                       ELSE Failure(r.error),
              queries |-> Sent(q.stmt, q.params, r)] :
               r \in executeQuery(data, fault, q.stmt, q.params)}

getRarities(data, pool, fault) ==
    IF ~pool THEN {[resp |-> Failure(PoolNotInitialized), queries |-> <<>>]}
    ELSE LET q == distinctQuery("rarity")
         IN {[resp |-> IF r.ok THEN ArrayPayload(MapRows(r.rows, RarityItem))
                       ELSE Failure(r.error),
              queries |-> Sent(q.stmt, q.params, r)] :
               r \in executeQuery(data, fault, q.stmt, q.params)}

getSubcategories(data, pool, params, fault) ==
    IF ~pool THEN {[resp |-> Failure(PoolNotInitialized), queries |-> <<>>]}
    ELSE LET q == subcategoriesQuery(params.categoryName)
         IN {[resp |-> IF r.ok THEN ArrayPayload(MapRows(r.rows, SubcategoryItem))
                       ELSE Failure(r.error),
              queries |-> Sent(q.stmt, q.params, r)] :
               r \in executeQuery(data, fault, q.stmt, q.params)}

getBiomes(data, pool, fault) ==
    IF ~pool THEN {[resp |-> Failure(PoolNotInitialized), queries |-> <<>>]}
    ELSE LET q == distinctQuery("biome")
         IN {[resp |-> IF r.ok THEN ArrayPayload(MapRows(r.rows, BiomeItem))
                       ELSE Failure(r.error),
              queries |-> Sent(q.stmt, q.params, r)] :
               r \in executeQuery(data, fault, q.stmt, q.params)}

\* catch (error) { throw new Error(`Failed to retrieve habitats: ...`) }
HabitatsError(error) == JsError("Failed to retrieve habitats: " \o error.message)

\* A handler that would serve the list the resources module cached.
getHabitatsFromCache(data, pool, fault) ==
    IF ~pool THEN {[resp |-> Failure(HabitatsError(NotInitialized)), queries |-> <<>>]}
    ELSE {[resp |-> ArrayPayload(IF res.habitats = <<>> THEN <<>> ELSE res.habitats[1]),
           queries |-> <<>>]}

getHabitats(data, pool, fault) ==
    IF ~pool THEN {[resp |-> Failure(HabitatsError(NotInitialized)), queries |-> <<>>]}
    ELSE LET q == distinctQuery("habitat")
         IN {[resp |-> IF r.ok THEN ArrayPayload(MapRows(r.rows, HabitatName))
                       ELSE Failure(HabitatsError(r.error)),
              queries |-> Sent(q.stmt, q.params, r)] :
               r \in executeQuery(data, fault, q.stmt, q.params)}

\* The tools take no argument (z.object({})), getSubcategories an optional
\* categoryName (z.string().optional()).
ReferenceRequests ==
    {Request(tool, via, [categoryName |-> <<>>]) :
       tool \in {"getCategories", "getRarities", "getBiomes", "getHabitats"},
       via \in {"tool", "direct"}}
    \cup {Request("getSubcategories", via, [categoryName |-> c]) :
            via \in {"tool", "direct"},
            c \in {<<>>, <<"">>, <<"Aquatic">>, <<"Mythic">>}}

\* A call through the server needs the server, which createMCPServer makes
\* after initializeTools; a direct call of the exported function does not.
Reachable == req.via = "tool" => dbPool

CallGetCategories ==
    /\ req.tool = "getCategories" /\ Reachable
    /\ \E fault \in Faults :
          /\ injected' = Under(fault)
          /\ Respond(getCategories(db, dbPool, fault))

CallGetRarities ==
    /\ req.tool = "getRarities" /\ Reachable
    /\ \E fault \in Faults :
          /\ injected' = Under(fault)
          /\ Respond(getRarities(db, dbPool, fault))

CallGetSubcategories ==
    /\ req.tool = "getSubcategories" /\ Reachable
    /\ \E fault \in Faults :
          /\ injected' = Under(fault)
          /\ Respond(getSubcategories(db, dbPool, req.args, fault))

CallGetBiomes ==
    /\ req.tool = "getBiomes" /\ Reachable
    /\ \E fault \in Faults :
          /\ injected' = Under(fault)
          /\ Respond(getBiomes(db, dbPool, fault))

CallGetHabitats ==
    /\ req.tool = "getHabitats" /\ Reachable
    /\ \E fault \in Faults :
          /\ injected' = Under(fault)
          /\ Respond(getHabitats(db, dbPool, fault))

InitReference == Start(SmallDatasets, ReferenceRequests)

NextReference ==
    \/ initializeTools \/ initializeResources
    \/ CallGetCategories \/ CallGetRarities \/ CallGetSubcategories
    \/ CallGetBiomes \/ CallGetHabitats

\* The reference tools, beside a resources module that may or may not have loaded.
SpecReference == InitReference /\ [][NextReference]_vars

(***************************************************************************)
(* executeQuery step by step (utils/db.js), for several invocations in     *)
(* flight at once: pool.connect(), client.query(), the catch that rethrows *)
(* and the finally that releases.  A call is                               *)
(*   [pc, client, released, outcome]                                       *)
(* client tells whether `client` was assigned, released counts the         *)
(* client.release() calls made.                                            *)
(***************************************************************************)
MaxCalls == 3           \* executeQuery invocations followed in one behaviour
PoolSize == 2           \* clients the pool lends at once (max: 20, scaled down)

\* let client;
NewCall == [pc |-> "connect", client |-> FALSE, released |-> 0, outcome |-> "pending"]

\* The clients lent and not yet given back.
CheckedOut ==
    Cardinality({i \in 1..Len(calls) : calls[i].client /\ calls[i].released = 0})

\* client = await pool.connect()
Connected(call) == [call EXCEPT !.client = TRUE, !.pc = "query"]

\* return result.rows, on the way out through finally
Returning(call) == [call EXCEPT !.outcome = "rows", !.pc = "finally"]

\* catch (error) { ...; throw error }, on the way out through finally
Throwing(call) == [call EXCEPT !.outcome = "error", !.pc = "finally"]

\* A finally that gives the client back only when the statement answered.
FinallyOnSuccess(call) ==
    [call EXCEPT !.released = IF call.client /\ call.outcome = "rows" THEN @ + 1 ELSE @,
                 !.pc = "done"]

\* finally { if (client) client.release() }
Finally(call) ==
    [call EXCEPT !.released = IF call.client THEN @ + 1 ELSE @,
                 !.pc = "done"]

Step(i, call) ==
    /\ calls' = [calls EXCEPT ![i] = call]
    /\ UNCHANGED <<db, dbPool, req, resp, queries, injected, res>>

BeginExecuteQuery ==
    /\ Len(calls) < MaxCalls
    /\ calls' = Append(calls, NewCall)
    /\ UNCHANGED <<db, dbPool, req, resp, queries, injected, res>>

\* The pool lends a client when it has one.
ConnectResolves ==
    \E i \in 1..Len(calls) :
        /\ calls[i].pc = "connect"
        /\ CheckedOut < PoolSize
        /\ Step(i, Connected(calls[i]))

ConnectRejects ==
    \E i \in 1..Len(calls) :
        /\ calls[i].pc = "connect"
        /\ Step(i, Throwing(calls[i]))

QueryResolves ==
    \E i \in 1..Len(calls) :
        /\ calls[i].pc = "query"
        /\ Step(i, Returning(calls[i]))

QueryRejects ==
    \E i \in 1..Len(calls) :
        /\ calls[i].pc = "query"
        /\ Step(i, Throwing(calls[i]))

RunFinally ==
    \E i \in 1..Len(calls) :
        /\ calls[i].pc = "finally"
        /\ Step(i, Finally(calls[i]))

InitPool == Start({Dataset({})}, {Request("getHabitats", "direct", [categoryName |-> <<>>])})

NextPool ==
    \/ BeginExecuteQuery \/ ConnectResolves \/ ConnectRejects
    \/ QueryResolves \/ QueryRejects \/ RunFinally

\* The connections of executeQuery invocations that interleave at their awaits.
SpecPool == InitPool /\ [][NextPool]_vars

(***************************************************************************)
(* Every tool under every fault: a few requests of each tool, answered by  *)
(* a store that may refuse the connection or the statement.                *)
(***************************************************************************)
FaultRequests ==
    {r \in PageRequests : r.args.filters = NoFilters /\ r.args.limit \in {<<>>, <<2>>}
                            /\ r.args.offset = <<>>}
    \cup ByIdRequests \cup ByNameRequests \cup CompareRequests
    \cup {r \in HabitatRequests : r.args.limit = <<>>}
    \cup ReferenceRequests

\* The small stores, and one with detail rows for creatures 1 and 2.
FaultDatasets ==
    SmallDatasets
    \cup {d \in DetailDatasets :
            /\ d.keywords = FirstRows(KeywordCatalogue, MaxRows)
            /\ d.abilities = FirstRows(AbilityCatalogue, MaxRows)
            /\ d.flaws = {OtherFlaw}
            /\ d.augments = {OtherEdge(1)}
            /\ d.hindrances = {OtherEdge(-1)}}

InitFaults == Start(FaultDatasets, FaultRequests)

NextFaults ==
    \/ initializeTools
    \/ CallGetMonstersTool \/ CallGetMonsters
    \/ CallGetMonsterByIdTool \/ CallGetMonsterById
    \/ CallGetMonsterByNameTool \/ CallGetMonsterByName
    \/ CallCompareMonstersTool \/ CallCompareMonsters
    \/ CallGetMonsterByHabitatTool \/ CallGetMonsterByHabitat
    \/ CallGetCategories \/ CallGetRarities \/ CallGetSubcategories
    \/ CallGetBiomes \/ CallGetHabitats

SpecFaults == InitFaults /\ [][NextFaults]_vars

(***************************************************************************)
(* The server as mcp-server/index.js starts it: createMCPServer hands the  *)
(* pool to the tools module and registers the tools, and the server then   *)
(* answers tool calls.  Nothing in the start-up calls initializeResources. *)
(***************************************************************************)
ServerRequests == {r \in FaultRequests : r.via = "tool"}

InitServer == Start(FaultDatasets, ServerRequests)

NextServer ==
    \/ initializeTools
    \/ CallGetMonstersTool \/ CallGetMonsterByIdTool \/ CallGetMonsterByNameTool
    \/ CallCompareMonstersTool \/ CallGetMonsterByHabitatTool
    \/ CallGetCategories \/ CallGetRarities \/ CallGetSubcategories
    \/ CallGetBiomes \/ CallGetHabitats

SpecServer == InitServer /\ [][NextServer]_vars

(***************************************************************************)
(* The lifetime of the cached lists: the resources module loaded once, as  *)
(* its comment says it is, beside a store that other programs write to,    *)
(* resource reads and reference tool calls.                                *)
(***************************************************************************)
\* initializeResources, run by the start-up: "once at startup".
LoadOnce ==
    /\ res.loads = 0
    /\ initializeResources

\* Another program commits a write to the store.
StoreWritten ==
    /\ db' \in SmallDatasets \ {db}
    /\ UNCHANGED <<dbPool, req, resp, queries, injected, res, calls>>

CacheRequests == ResourceRequests \cup {r \in ReferenceRequests : r.via = "tool"}

InitCache == Start(SmallDatasets, CacheRequests)

NextCache ==
    \/ initializeTools \/ LoadOnce \/ StoreWritten
    \/ ReadCategories \/ ReadSubcategories \/ ReadHabitats
    \/ CallGetCategories \/ CallGetRarities \/ CallGetSubcategories
    \/ CallGetBiomes \/ CallGetHabitats

SpecCache == InitCache /\ [][NextCache]_vars

(***************************************************************************)
(* getMonsterById over stores whose keywords vary in name: keyword_name is *)
(* free text (doc/ragmonsters_schema.sql), so a name may be a string of    *)
(* digits, two keywords of a stat block may share a name, and a keyword    *)
(* may own no ability.                                                     *)
(***************************************************************************)
MaxKeywords == 2        \* keywords, and abilities, in the stat block of creature 1

KeywordNames == {"10", "9", "Fire"}

KeywordRow(i, name) ==
    [keyword_id |-> SqlInt(i), stats_id |-> SqlInt(1), keyword_name |-> SqlText(name),
     rating |-> SqlInt(i)]

AbilityRow(a, keyword) ==
    [ability_id |-> SqlInt(a), keyword_id |-> SqlInt(keyword),
     ability_name |-> AbilityCatalogue[((a - 1) % Len(AbilityCatalogue)) + 1].ability_name,
     mastery_value |-> SqlText("5")]

\* Creature 1 with one stat block, n keywords and na abilities, each ability
\* owned by one of the keywords (keyword_id is a foreign key).
KeywordDatasets ==
    {[monsters |-> {MonsterRow(1)},
      stats |-> {[stats_id |-> SqlInt(1), monster_id |-> SqlInt(1)]},
      keywords |-> {KeywordRow(i, names[i]) : i \in 1..n},
      abilities |-> {AbilityRow(a, owner[a]) : a \in 1..na},
      flaws |-> {}, augments |-> {}, hindrances |-> {}] :
       names \in [1..MaxKeywords -> KeywordNames],
       owner \in [1..MaxKeywords -> 1..MaxKeywords],
       n \in 0..MaxKeywords,
       na \in 0..MaxKeywords}

KeywordRequests ==
    {Request("getMonsterById", via, [monsterId |-> <<1>>]) : via \in {"tool", "direct"}}

InitKeywords ==
    /\ Start(KeywordDatasets, KeywordRequests)
    /\ \A a \in db.abilities : \E k \in db.keywords : k.keyword_id = a.keyword_id

NextKeywords == initializeTools \/ CallGetMonsterByIdTool \/ CallGetMonsterById

\* getMonsterById over the stores with free keyword names.
SpecKeywords == InitKeywords /\ [][NextKeywords]_vars

(***************************************************************************)
(* Action invocations in flight at once.  An invocation runs its           *)
(* statements through executeQuery one after the other, each awaited       *)
(* before the next begins (tools/monsters.js); the pool lends each of its  *)
(* clients to one executeQuery call at a time (mcp-server/index.js,        *)
(* max: 20).  A call here also records its invocation (owner) and the      *)
(* client it was lent (conn, 0 when none).                                 *)
(***************************************************************************)
Invocations == 1..MaxCalls

\* The tool an invocation calls: getMonsterById and getMonsters in turn.
ToolOf(i) == IF i % 2 = 1 THEN "getMonsterById" ELSE "getMonsters"

\* The executeQuery calls a tool makes when none fails.
StatementsOf(tool) == IF tool = "getMonsterById" THEN 5 ELSE 1

CallsOf(i) == {k \in 1..Len(calls) : calls[k].owner = i}

\* An invocation that begins a statement while an earlier one is in flight.
MayBeginUnawaited(i) ==
    /\ Cardinality(CallsOf(i)) < StatementsOf(ToolOf(i))
    /\ \A k \in CallsOf(i) : calls[k].outcome # "error"

\* const rows = await executeQuery(...): the next statement begins when the
\* one before it has returned its rows; an error ends the invocation.
MayBegin(i) ==
    /\ Cardinality(CallsOf(i)) < StatementsOf(ToolOf(i))
    /\ \A k \in CallsOf(i) : calls[k].pc = "done" /\ calls[k].outcome = "rows"

\* Invocations are numbered in the order of their first statement.
BeginStatement ==
    \E i \in Invocations :
        /\ Len(calls) < MaxCalls
        /\ MayBegin(i)
        /\ \A j \in 1..(i - 1) : CallsOf(j) # {}
        /\ calls' = Append(calls, NewCall @@ [owner |-> i, conn |-> 0])
        /\ UNCHANGED <<db, dbPool, req, resp, queries, injected, res>>

\* A client of the pool that no call holds.
Idle(c) ==
    ~\E k \in 1..Len(calls) : calls[k].conn = c /\ calls[k].client /\ calls[k].released = 0

\* pool.connect() resolves with an idle client; with none idle it stays pending.
Lend ==
    \E k \in 1..Len(calls), c \in 1..PoolSize :
        /\ calls[k].pc = "connect"
        /\ Idle(c)
        /\ Step(k, [Connected(calls[k]) EXCEPT !.conn = c])

InitInvocations == InitPool

NextInvocations ==
    \/ BeginStatement \/ Lend \/ ConnectRejects
    \/ QueryResolves \/ QueryRejects \/ RunFinally

\* Tool invocations that interleave at the awaits of their executeQuery calls.
SpecInvocations == InitInvocations /\ [][NextInvocations]_vars

(***************************************************************************)
(* What the claims speak of, stated from the request and the store.        *)
(***************************************************************************)
Answered == resp.status = "ok"
Failed == resp.status = "error"

\* A value the caller supplied: present and not empty (the front end and the
\* handlers alike take an empty string for "no value").
Supplied(o) == o # <<>> /\ o[1] # ""

\* The offset the handler is given: the tool's schema declares none.
RequestedOffset == IF req.via = "tool" THEN 0 ELSE OrDefault(req.args.offset, 0)

\* The creatures of the store, as a response shows them.
Creatures ==
    {[id |-> m.monster_id.v, name |-> m.name.v, category |-> m.category_name.v,
      subcategory |-> m.subcategory_name.v, habitat |-> m.habitat.v,
      biome |-> m.biome.v, rarity |-> m.rarity.v] : m \in db.monsters}

\* The creatures equal to every supplied filter value.
Filtered ==
    LET f == req.args.filters IN
    {c \in Creatures :
        /\ Supplied(f.category) => c.category = f.category[1]
        /\ Supplied(f.habitat) => c.habitat = f.habitat[1]
        /\ Supplied(f.biome) => c.biome = f.biome[1]
        /\ Supplied(f.rarity) => c.rarity = f.rarity[1]}

FieldLess(field, a, b) ==
    CASE field = "name" -> CharsLess(a.name, b.name)
      [] field = "habitat" -> CollationIndex(a.habitat) < CollationIndex(b.habitat)
      [] field = "rarity" -> CollationIndex(a.rarity) < CollationIndex(b.rarity)
      [] field = "category" -> CollationIndex(a.category) < CollationIndex(b.category)

\* a comes before b under (field in direction dir, identity ascending).
Before(field, dir, a, b) ==
    \/ IF dir = "desc" THEN FieldLess(field, b, a) ELSE FieldLess(field, a, b)
    \/ a[field] = b[field] /\ a.id < b.id

\* data is the page of the set M under the total order Less: limit rows after
\* the first offset ones, in order, none skipped.
IsPage(data, M, Less(_, _), offset, limit) ==
    /\ \A i \in 1..Len(data) : data[i] \in M
    /\ \A i \in 1..(Len(data) - 1) :
          /\ Less(data[i], data[i + 1])
          /\ ~\E m \in M : Less(data[i], m) /\ Less(m, data[i + 1])
    /\ Len(data) = Min(limit, Max(0, Cardinality(M) - offset))
    /\ Len(data) > 0 => Cardinality({m \in M : Less(m, data[1])}) = offset

\* The statement an invocation sent, when it sent one.
SentOne == Len(queries) = 1
LimitBound == queries[1].params[queries[1].stmt.limit[1].ph].v

(***************************************************************************)
(* C1: for every integer limit passed to getMonsters the LIMIT value bound *)
(* into the query is min(max(1, limit), 50), and 10 when limit is omitted; *)
(* no response holds more than 50 creatures.                               *)
(***************************************************************************)
C1_LimitClamped ==
    (req.tool = "getMonsters" /\ SentOne) =>
        /\ LimitBound = (IF req.args.limit = <<>> THEN 10
                         ELSE Min(Max(1, req.args.limit[1]), 50))
        /\ Answered => Len(resp.data) <= 50

\* A request for 100 creatures of the large dataset was answered with 50.
C1_Witness ==
    /\ req.tool = "getMonsters" /\ req.args.limit = <<100>>
    /\ Answered /\ Len(resp.data) = 50 /\ Cardinality(Filtered) > 50

\* The page size the guardrail grants a request.
GrantedLimit ==
    IF req.args.limit = <<>> THEN 10 ELSE Min(Max(1, req.args.limit[1]), 50)

ValidLimit == req.args.limit # <<>> /\ req.args.limit[1] >= 1

(***************************************************************************)
(* C4, as claimed: for all valid limit inputs the returned page length is  *)
(* min(requested, 50), and it is never 0 unless the filtered set is empty. *)
(***************************************************************************)
C4_LengthIsRequested ==
    (req.tool = "getMonsters" /\ ValidLimit /\ Answered) =>
        IF Filtered = {} THEN Len(resp.data) = 0
        ELSE Len(resp.data) = Min(req.args.limit[1], 50)

(***************************************************************************)
(* C4, amended: for all valid limit inputs the returned page length is     *)
(* min(requested, 50, number of filtered creatures left after the offset); *)
(* with no offset it is never 0 unless the filtered set is empty.          *)
(***************************************************************************)
C4_LengthIsBounded ==
    (req.tool = "getMonsters" /\ ValidLimit /\ Answered) =>
        /\ Len(resp.data) = Min(Min(req.args.limit[1], 50),
                                Max(0, Cardinality(Filtered) - RequestedOffset))
        /\ (RequestedOffset = 0 /\ Len(resp.data) = 0) => Filtered = {}

\* A page shorter than requested: fewer creatures match than were asked for.
C4_Witness ==
    /\ req.tool = "getMonsters" /\ ValidLimit /\ Answered
    /\ Len(resp.data) > 0
    /\ Len(resp.data) < Min(req.args.limit[1], 50)

(***************************************************************************)
(* C2: a getMonsters request whose filters.category or filters.rarity is   *)
(* outside the closed enumeration (7 categories, 5 rarities) fails         *)
(* validation, and no query is executed for it.                            *)
(***************************************************************************)
OutsideEnum(o, enum) == o # <<>> /\ o[1] \notin enum

C2_EnumRejected ==
    /\ Cardinality(CategoryEnum) = 7 /\ Cardinality(RarityEnum) = 5
    /\ (/\ req.tool = "getMonsters" /\ req.via = "tool"
        /\ resp.status # "none"
        /\ \/ OutsideEnum(req.args.filters.category, CategoryEnum)
           \/ OutsideEnum(req.args.filters.rarity, RarityEnum))
       => (Failed /\ resp.error.code = "InvalidParams" /\ queries = <<>>)

\* A request with an unknown rarity (and a valid category) was rejected.
C2_Witness ==
    /\ req.tool = "getMonsters" /\ req.via = "tool"
    /\ req.args.filters.rarity = <<"Mythic">>
    /\ req.args.filters.category = <<"Aquatic">>
    /\ Failed /\ resp.error.code = "InvalidParams"

(***************************************************************************)
(* C3: two getMonsters requests with identical parameters against an       *)
(* unchanged dataset return the same sequence of creatures, also when      *)
(* creatures share the sort-key value: the rows are totally ordered by     *)
(* (sort field, monster_id ascending).                                     *)
(***************************************************************************)
SortFieldOfRequest ==
    IF Supplied(req.args.sort.field)
         /\ req.args.sort.field[1] \in {"name", "category", "habitat", "rarity"}
      THEN req.args.sort.field[1] ELSE "name"

C3_TotallyOrdered ==
    (req.tool = "getMonsters" /\ Answered) =>
        \E dir \in {"asc", "desc"} :
            \A i, j \in 1..Len(resp.data) :
                i < j => Before(SortFieldOfRequest, dir, resp.data[i], resp.data[j])

C3_Reproducible ==
    /\ []C3_TotallyOrdered
    /\ [][(req.tool = "getMonsters" /\ Answered /\ Answered')
            => resp'.data = resp.data]_vars

\* An answer whose first two creatures share the sort-key value.
C3_Witness ==
    /\ req.tool = "getMonsters" /\ Answered
    /\ Len(resp.data) >= 2
    /\ resp.data[1][SortFieldOfRequest] = resp.data[2][SortFieldOfRequest]

(***************************************************************************)
(* C5: getMonsters returns exactly the creatures that equal every supplied *)
(* filter value (category, habitat, biome, rarity, compared by equality),  *)
(* up to the page limit; a filter that is not supplied restricts nothing,  *)
(* and with no sort given the rows come in name-ascending order with       *)
(* identity tie-break.                                                     *)
(***************************************************************************)
NoSortGiven == ~Supplied(req.args.sort.field) /\ req.args.sort.direction = <<>>

NameThenId(a, b) == Before("name", "asc", a, b)

C5_FiltersByEquality ==
    (req.tool = "getMonsters" /\ Answered) =>
        /\ \A i \in 1..Len(resp.data) : resp.data[i] \in Filtered
        /\ \A i, j \in 1..Len(resp.data) : i # j => resp.data[i].id # resp.data[j].id
        /\ Len(resp.data) = Min(GrantedLimit,
                                Max(0, Cardinality(Filtered) - RequestedOffset))
        /\ NoSortGiven =>
              IsPage(resp.data, Filtered, NameThenId, RequestedOffset, GrantedLimit)

\* Two filters at once kept some creatures and left others out, and a third,
\* unsupplied one restricted nothing.
C5_Witness ==
    /\ req.tool = "getMonsters" /\ Answered /\ NoSortGiven
    /\ Supplied(req.args.filters.category) /\ Supplied(req.args.filters.habitat)
    /\ req.args.filters.rarity = <<>>
    /\ Len(resp.data) >= 1
    /\ Cardinality(Filtered) < Cardinality(Creatures)

(***************************************************************************)
(* C6: a getMonsters request whose sort.field is not one of name,          *)
(* category, habitat, rarity does not fail: it returns the same result as  *)
(* the same request with sort.field = name.                                *)
(***************************************************************************)
\* Errors that do not depend on the sort field: the store failing, dbPool not
\* set, the schema rejecting another argument.
FailedRegardlessOfSort ==
    /\ Failed
    /\ \/ resp.error.code \in {"ECONNREFUSED", "57P01", "InvalidParams"}
       \/ resp.error = NotInitialized

DirectionOfRequest ==
    IF req.args.sort.direction # <<>> /\ req.args.sort.direction[1] \in {"desc", "DESC"}
      THEN "desc" ELSE "asc"

NameInDirection(a, b) == Before("name", DirectionOfRequest, a, b)

C6_UnknownFieldSortsByName ==
    (/\ req.tool = "getMonsters"
     /\ req.args.sort.field # <<>>
     /\ req.args.sort.field[1] \notin {"name", "category", "habitat", "rarity"}
     /\ resp.status # "none"
     /\ ~FailedRegardlessOfSort)
    => /\ Answered
       /\ IsPage(resp.data, Filtered, NameInDirection, RequestedOffset, GrantedLimit)

(***************************************************************************)
(* C7: getMonsterById with an identity that matches no creature never      *)
(* returns a success payload: it fails with a not-found error whose kind   *)
(* (name and code) differs from that of the error raised for the same      *)
(* request when the store cannot be reached or a query fails.              *)
(***************************************************************************)
\* The request names an identity (a positive integer) no creature has.
NoSuchCreature ==
    /\ req.tool = "getMonsterById"
    /\ req.args.monsterId # <<>> /\ req.args.monsterId[1] > 0
    /\ ~\E m \in db.monsters : m.monster_id.v = req.args.monsterId[1]

\* The response reports the creature as not found.
IsNotFound ==
    /\ Failed
    /\ resp.error.message = "Failed to retrieve monster details: Monster with ID "
                              \o ToString(req.args.monsterId[1]) \o " not found"

\* A response that reports the store unreachable or a statement failed.
IsStoreFailure(r) ==
    /\ r.status = "error"
    /\ r.error.message \in
         {"Failed to retrieve monster details: " \o e.message : e \in {ConnectError, QueryError}}

Kind(error) == <<error.name, error.code>>

C7_NeverSuccess == (NoSuchCreature /\ resp.status # "none") => Failed

C7_NotFoundIsDistinct ==
    /\ []C7_NeverSuccess
    /\ [][(NoSuchCreature /\ IsNotFound /\ IsStoreFailure(resp'))
            => Kind(resp.error) # Kind(resp'.error)]_vars

(***************************************************************************)
(* C8: in every getMonsterById success payload keywords, flaws, strengths  *)
(* and weaknesses are present and are lists; a creature with no rows of    *)
(* one kind has that field equal to the empty list.                        *)
(***************************************************************************)
RelatedFields == {"keywords", "flaws", "strengths", "weaknesses"}

StatsOf(id) == {qs.stats_id : qs \in {x \in db.stats : x.monster_id.v = id}}

\* The rows of one kind the store holds for the creature id.
RelatedRows(field, id) ==
    CASE field = "keywords" -> {k \in db.keywords : k.stats_id \in StatsOf(id)}
      [] field = "flaws" -> {f \in db.flaws : f.stats_id \in StatsOf(id)}
      [] field = "strengths" -> {a \in db.augments : a.monster_id.v = id}
      [] field = "weaknesses" -> {h \in db.hindrances : h.monster_id.v = id}

C8_ListsAlwaysPresent ==
    (req.tool = "getMonsterById" /\ Answered) =>
        /\ RelatedFields \subseteq DOMAIN resp.data
        /\ \A f \in RelatedFields :
              /\ DOMAIN resp.data[f] = 1..Len(resp.data[f])
              /\ RelatedRows(f, resp.data.id) = {} => resp.data[f] = <<>>

\* A creature with strengths and no flaws was answered.
C8_Witness ==
    /\ req.tool = "getMonsterById" /\ Answered
    /\ RelatedRows("flaws", resp.data.id) = {} /\ resp.data.flaws = <<>>
    /\ RelatedRows("keywords", resp.data.id) = {} /\ resp.data.keywords = <<>>
    /\ resp.data.strengths # <<>>

(***************************************************************************)
(* C9: getMonsterById is idempotent: two successful calls with the same    *)
(* identity on an unchanged store return the same payload, the order of    *)
(* the flaws, strengths and weaknesses lists included.                     *)
(***************************************************************************)
C9_Idempotent ==
    [][(req.tool = "getMonsterById" /\ Answered /\ Answered') => resp' = resp]_vars

(***************************************************************************)
(* C10: getMonsterByName always answers with {found, count, monsters}:     *)
(* monsters holds at most 5 creatures, each with a name that contains the  *)
(* search string whatever the case of the letters, count is the length of  *)
(* monsters, and found holds exactly when count > 0; with no match found   *)
(* is false, count is 0 and monsters is empty.                             *)
(***************************************************************************)
ContainsIgnoringCase(s, sub) ==
    \E i \in 0..(Len(s) - Len(sub)) : Lower(SubSeq(s, i + 1, i + Len(sub))) = Lower(sub)

C10_NameSearchShape ==
    (req.tool = "getMonsterByName" /\ Answered) =>
        /\ {"found", "count", "monsters"} \subseteq DOMAIN resp
        /\ Len(resp.monsters) <= 5
        /\ \A i \in 1..Len(resp.monsters) :
              ContainsIgnoringCase(resp.monsters[i].name, req.args.name[1])
        /\ resp.count = Len(resp.monsters)
        /\ resp.found <=> resp.count > 0
        /\ (~\E c \in Creatures : ContainsIgnoringCase(c.name, req.args.name[1]))
              => ~resp.found /\ resp.count = 0 /\ resp.monsters = <<>>

(***************************************************************************)
(* C11: compareMonsters returns a comparison only when monsterNameA and    *)
(* monsterNameB both resolve to a creature by a case-insensitive name      *)
(* match; when one does not, it fails with a not-found error that names an *)
(* unresolved name, and when only monsterNameB is unresolved the error     *)
(* names monsterNameB.  (For two non-empty names and a store that answers.)*)
(***************************************************************************)
Resolves(name) == \E c \in Creatures : Lower(c.name) = Lower(name)

NamedNotFound(name) ==
    Failed /\ resp.error.message = "Monster '" \o Text(name) \o "' not found."

\* The store answered the statement of the invocation.
StoreAnswered == resp.status # "none" /\ injected = NoFault /\ Len(queries) > 0

C11_CompareResolvesBoth ==
    (req.tool = "compareMonsters" /\ StoreAnswered) =>
        LET a == req.args.monsterNameA[1]
            b == req.args.monsterNameB[1]
        IN /\ Answered <=> (Resolves(a) /\ Resolves(b))
           /\ Answered => /\ Lower(resp.monsters[1]) = Lower(a)
                          /\ Lower(resp.monsters[2]) = Lower(b)
           /\ ~Resolves(a) => NamedNotFound(a)
           /\ (Resolves(a) /\ ~Resolves(b)) => NamedNotFound(b)

\* Only the second name was unresolved, and the error named it.
C11_Witness ==
    /\ req.tool = "compareMonsters" /\ StoreAnswered
    /\ Resolves(req.args.monsterNameA[1]) /\ ~Resolves(req.args.monsterNameB[1])
    /\ req.args.monsterNameA[1] = <<"a", "b">>
    /\ NamedNotFound(req.args.monsterNameB[1])

(***************************************************************************)
(* C12: no list Action (getMonsters, getMonsterByHabitat,                  *)
(* getMonsterByName) returns more than 50 creatures in one response,       *)
(* whatever limit the caller passes; getMonsterByHabitat returns only      *)
(* creatures whose habitat equals the argument exactly.                    *)
(***************************************************************************)
\* The creatures of a list Action's success payload.
Listed ==
    IF req.tool = "getMonsters" THEN resp.data
    ELSE IF "monsters" \in DOMAIN resp THEN resp.monsters ELSE <<>>

C12_HabitatExact ==
    (req.tool = "getMonsterByHabitat" /\ Answered) =>
        \A i \in 1..Len(resp.monsters) : resp.monsters[i].habitat = req.args.habitat[1]

C12_ListsBounded ==
    /\ (req.tool \in {"getMonsters", "getMonsterByHabitat", "getMonsterByName"} /\ Answered)
          => Len(Listed) <= 50
    /\ C12_HabitatExact

(***************************************************************************)
(* C16: a getMonsters or getMonsterByHabitat request whose limit or offset *)
(* is negative, non-integer or non-numeric is rejected as a validation     *)
(* failure before any query executes.                                      *)
(***************************************************************************)
\* The request, well-formed otherwise, carries a limit or an offset that is no
\* non-negative integer.
MalformedPaging ==
    \/ /\ req.tool = "getMonsters"
       /\ \/ req.args.limit # <<>> /\ req.args.limit[1] < 0
          \/ req.args.offset # <<>> /\ req.args.offset[1] < 0
    \/ /\ req.tool = "getMonsterByHabitat"
       /\ Supplied(req.args.habitat)
       /\ req.args.limit # <<>>
       /\ \/ req.args.limit[1].type # "number"
          \/ req.args.limit[1].half
          \/ req.args.limit[1].int < 0

C16_MalformedPagingRejected ==
    (MalformedPaging /\ req.via = "tool" /\ resp.status # "none" /\ injected = NoFault) =>
        /\ Failed /\ resp.error.code = "InvalidParams"
        /\ queries = <<>>



(***************************************************************************)
(* C13.  Reading the categories, subcategories or habitats resource while  *)
(* its list has not been loaded returns the loader's "not loaded" text,    *)
(* and that text is not what the loader returns for a list that was loaded *)
(* with zero rows; a loaded list, empty or not, never reads as not loaded. *)
(***************************************************************************)
CacheOf(uri) ==
    CASE uri = "categories" -> res.categories
      [] uri = "subcategories" -> res.subcategories
      [] uri = "habitats" -> res.habitats

NotLoadedText(uri) ==
    CASE uri = "categories" -> CategoriesNotLoaded
      [] uri = "subcategories" -> SubcategoriesNotLoaded
      [] uri = "habitats" -> HabitatsNotLoaded

\* The heading alone: what a list loaded with zero rows reads as.
HeadingOf(uri) ==
    CASE uri = "categories" -> "Monster Categories:\n"
      [] uri = "subcategories" -> "Monster Subcategories:\n"
      [] uri = "habitats" -> "Monster Habitats:\n"

\* A step of the resources module that leaves its state alone is a read.
ResourceRead == req.via = "resource" /\ res' = res /\ resp'.status = "ok"

C13_NotLoadedIsExplicit ==
    [][ResourceRead =>
         /\ CacheOf(req.tool) = <<>> =>
               /\ resp'.text = NotLoadedText(req.tool)
               /\ resp'.text # HeadingOf(req.tool)
         /\ CacheOf(req.tool) # <<>> => resp'.text # NotLoadedText(req.tool)
         /\ CacheOf(req.tool) = <<<<>>>> => resp'.text = HeadingOf(req.tool)]_vars

\* A read answered before any load, on a store whose load would find no rows.
C13_Witness ==
    /\ req.via = "resource"
    /\ res.loads = 0 /\ CacheOf(req.tool) = <<>>
    /\ db.monsters = {}
    /\ Answered /\ resp.text = NotLoadedText(req.tool)

ReferenceTools ==
    {"getCategories", "getRarities", "getBiomes", "getHabitats", "getSubcategories"}

RECURSIVE Ascending(_)
\* The strings of a set, in bytewise order.
Ascending(S) ==
    IF S = {} THEN <<>>
    ELSE LET least == CHOOSE x \in S :
                        \A y \in S : CollationIndex(x) <= CollationIndex(y)
         IN <<least>> \o Ascending(S \ {least})

\* The names a reference tool's answer lists, as the store holds them now.
Stored(tool) ==
    CASE tool = "getCategories" -> Ascending({c.category : c \in Creatures})
      [] tool = "getRarities" -> Ascending({c.rarity : c \in Creatures})
      [] tool = "getBiomes" -> Ascending({c.biome : c \in Creatures})
      [] tool = "getHabitats" -> Ascending({c.habitat : c \in Creatures})
      [] tool = "getSubcategories" ->
           Ascending({c.subcategory : c \in
                        {x \in Creatures : Supplied(req.args.categoryName)
                                             => x.category = req.args.categoryName[1]}})

\* The names in an answer: the entries themselves, or their name fields.
Names(array) ==
    [i \in 1..Len(array) |->
       IF req.tool \in {"getCategories", "getSubcategories"} THEN array[i].name
       ELSE array[i]]

\* Startup is over: the tools module has its pool and the three lists are loaded.
StartedUp ==
    /\ dbPool
    /\ res.categories # <<>> /\ res.subcategories # <<>> /\ res.habitats # <<>>

\* A step that answers a reference tool: it leaves both modules' state alone.
ReferenceAnswer ==
    /\ req.tool \in ReferenceTools
    /\ dbPool' = dbPool /\ res' = res
    /\ resp'.status = "ok"

ListTools == {"getMonsters", "getMonsterByHabitat", "getMonsterByName"}

C17_GetMonstersHint ==
    (req.tool = "getMonsters" /\ Answered) =>
        /\ {"summary", "source", "next"} \subseteq DOMAIN resp
        /\ resp.data = <<>> => resp.next = <<>>
        /\ resp.data # <<>> =>
              resp.next = <<"getMonsterById({ monsterId: "
                              \o ToString(resp.data[1].id) \o " })">>

C17_SelfDescribing ==
    /\ Answered => {"summary", "source"} \subseteq DOMAIN resp
    /\ (Answered /\ req.tool \in ListTools) => "next" \in DOMAIN resp
    /\ C17_GetMonstersHint

(***************************************************************************)
(* C18.  An executeQuery invocation that has returned or thrown has        *)
(* released the client it acquired exactly once, whether the statement     *)
(* answered or failed, and has released nothing when it acquired none; no  *)
(* client is released twice or before it is acquired; once every           *)
(* invocation is over, no client is checked out.                           *)
(***************************************************************************)
Over(call) == call.pc = "done"

C18_ReleasedExactlyOnce ==
    /\ \A i \in 1..Len(calls) :
          /\ calls[i].released <= (IF calls[i].client THEN 1 ELSE 0)
          /\ Over(calls[i]) => calls[i].released = (IF calls[i].client THEN 1 ELSE 0)
    /\ (\A i \in 1..Len(calls) : Over(calls[i])) => CheckedOut = 0

\* Three invocations over: one answered, one failed at its statement, one
\* failed to acquire a client.
C18_Witness ==
    /\ Len(calls) >= 3
    /\ \A i \in 1..Len(calls) : Over(calls[i])
    /\ \E i \in 1..Len(calls) : calls[i].client /\ calls[i].outcome = "rows"
    /\ \E i \in 1..Len(calls) : calls[i].client /\ calls[i].outcome = "error"
                                  /\ calls[i].released = 1
    /\ \E i \in 1..Len(calls) : ~calls[i].client /\ calls[i].released = 0

(***************************************************************************)
(* C19.  An invocation during which the store refuses the connection or    *)
(* the statement ends in an error, never in an answer; getMonsterByName    *)
(* answers found: false only when no fault struck and its one statement    *)
(* was sent and matched no creature.                                       *)
(***************************************************************************)
StoreFailed == injected.kind # "none" /\ resp.status # "none"

C19_FailuresSurface ==
    /\ StoreFailed => Failed
    /\ (req.tool = "getMonsterByName" /\ Answered /\ ~resp.found) =>
          /\ injected = NoFault
          /\ Len(queries) = 1
          /\ ~\E m \in db.monsters :
                Satisfies(m, queries[1].stmt.where[1], queries[1].params)

\* A getMonsterByName call for a name the store holds, made through the
\* server while the store fails at the statement.
C19_Witness ==
    /\ req.tool = "getMonsterByName" /\ req.via = "tool"
    /\ req.args.name = <<(<<"B", "a">>)>>
    /\ \E c \in Creatures : Lower(c.name) = <<"b", "a">>
    /\ injected = Under("query")
    /\ Failed /\ Len(queries) = 1

(***************************************************************************)
(* C20.  Whenever the server has answered a request, initializeResources   *)
(* has run exactly once and has loaded all three lists.                    *)
(***************************************************************************)
C20_LoadedOnceBeforeServing ==
    (req.via = "tool" /\ Answered) =>
        /\ res.loads = 1
        /\ res.categories # <<>> /\ res.subcategories # <<>> /\ res.habitats # <<>>

(***************************************************************************)
(* C21.  After the load, no step changes the cached lists, whatever is     *)
(* written to the store and whichever tool or resource is invoked; a read  *)
(* of a loaded list returns what the read before it returned, and a read   *)
(* of a list the load left unloaded keeps returning the not-loaded text.   *)
(***************************************************************************)
\* A step that answers a resource read.
KnowledgeRead ==
    /\ req.via = "resource"
    /\ db' = db /\ res' = res
    /\ resp'.status = "ok"

IdentityColumns == {"monster_id", "flaw_id"}

EndsWithIdentity(orderBy) == orderBy[Len(orderBy)].col.column \in IdentityColumns

C22_OrderingEndsWithIdentity ==
    (req.tool \in {"getMonsters", "getMonsterByHabitat", "getMonsterByName",
                   "getMonsterById"}) =>
        \A i \in 1..Len(queries) :
            (queries[i].stmt.from \in {"monsters", "stat_flaws"}
               /\ queries[i].stmt.orderBy # <<>>) =>
                EndsWithIdentity(queries[i].stmt.orderBy)

(***************************************************************************)
(* C23.  A getMonsters request whose sort.field is name, category, habitat *)
(* or rarity does not fail on account of the field: it returns the page of *)
(* the filtered creatures ordered by that field of the creature, identity  *)
(* breaking ties.                                                          *)
(***************************************************************************)
ByRequestedField(a, b) == Before(SortFieldOfRequest, DirectionOfRequest, a, b)

C23_AllowListedFieldsSort ==
    (/\ req.tool = "getMonsters"
     /\ Supplied(req.args.sort.field)
     /\ req.args.sort.field[1] \in {"name", "category", "habitat", "rarity"}
     /\ resp.status # "none"
     /\ ~FailedRegardlessOfSort)
    => /\ Answered
       /\ IsPage(resp.data, Filtered, ByRequestedField, RequestedOffset, GrantedLimit)

(***************************************************************************)
(* C24.  A getMonsters answer is the page of the filtered creatures in     *)
(* descending order of the effective sort field when sort.direction is     *)
(* 'desc', whether or not sort.field is given (the effective field is then *)
(* name), and in ascending order otherwise.                                *)
(***************************************************************************)
EffectiveField ==
    IF Supplied(req.args.sort.field) /\ req.args.sort.field[1] \in validSortFields
      THEN req.args.sort.field[1] ELSE "name"

ByEffectiveField(a, b) == Before(EffectiveField, DirectionOfRequest, a, b)

C24_DirectionHonoured ==
    (req.tool = "getMonsters" /\ Answered)
    => IsPage(resp.data, Filtered, ByEffectiveField, RequestedOffset, GrantedLimit)

(***************************************************************************)
(* C25.  One getMonsterById invocation sends the creature statement and    *)
(* the keyword/ability, flaw, advantage and disadvantage statements in     *)
(* that order, each after the one before it has completed; it answers only *)
(* after all five have completed, with every row of every statement in the *)
(* record; when a statement or its connection fails, the invocation fails. *)
(***************************************************************************)
DetailStatements(id) ==
    <<monsterQuery(id), abilitiesQuery(id), flawsQuery(id), strengthsQuery(id),
      weaknessesQuery(id)>>

AbilityRowsOf(id) ==
    {a \in db.abilities : \E k \in RelatedRows("keywords", id) : a.keyword_id = k.keyword_id}

C25_AllOrNothing ==
    (req.tool = "getMonsterById" /\ resp.status # "none" /\ queries # <<>>) =>
        /\ Len(queries) <= 5
        /\ \A i \in 1..Len(queries) :
              queries[i] = DetailStatements(req.args.monsterId[1])[i]
        /\ injected.kind # "none" => Failed
        /\ Answered =>
              /\ Len(queries) = 5
              /\ \A f \in {"flaws", "strengths", "weaknesses"} :
                    Len(resp.data[f]) = Cardinality(RelatedRows(f, resp.data.id))
              /\ Cardinality(AbilityRowsOf(resp.data.id)) =
                    Cardinality({<<k, j>> \in (1..Len(resp.data.keywords)) \X (1..Cardinality(db.abilities)) :
                                   j <= Len(resp.data.keywords[k].abilities)})

\* An auxiliary statement failed after the creature was found, and the
\* invocation failed.
C25_Witness ==
    /\ req.tool = "getMonsterById" /\ Failed
    /\ injected.kind = "query"
    /\ Len(queries) \in 2..5
    /\ \E m \in db.monsters : m.monster_id.v = req.args.monsterId[1]

(***************************************************************************)
(* C26.  A getMonsterById answer holds exactly one keyword node for each   *)
(* keyword name of the keyword/ability rows; the node carries a rating of  *)
(* a keyword of that name and the abilities of the keywords of that name   *)
(* in ascending order of ability name; the nodes are in ascending order of *)
(* keyword name, whatever the names are.                                   *)
(***************************************************************************)
Node(i) == resp.data.keywords[i]

\* The keyword/ability rows of the creature: its keywords joined to their abilities.
KeywordAbilityRows(id) ==
    {<<k, a>> \in RelatedRows("keywords", id) \X db.abilities : a.keyword_id = k.keyword_id}

AbilitiesOfName(id, name) ==
    {r[2].ability_name.v : r \in {x \in KeywordAbilityRows(id) : x[1].keyword_name.v = name}}

C26_OneNodePerName ==
    (req.tool = "getMonsterById" /\ Answered) =>
        LET id == resp.data.id
            nodes == 1..Len(resp.data.keywords)
        IN /\ {Node(i).name : i \in nodes} =
                {r[1].keyword_name.v : r \in KeywordAbilityRows(id)}
           /\ \A i, j \in nodes : i # j => Node(i).name # Node(j).name
           /\ \A i \in nodes :
                 /\ \E k \in RelatedRows("keywords", id) :
                       k.keyword_name.v = Node(i).name /\ k.rating.v = Node(i).rating

C26_AbilitiesInQueryOrder ==
    (req.tool = "getMonsterById" /\ Answered) =>
        \A i \in 1..Len(resp.data.keywords) :
           /\ {Node(i).abilities[n].name : n \in 1..Len(Node(i).abilities)} =
                 AbilitiesOfName(resp.data.id, Node(i).name)
           /\ Len(Node(i).abilities) = Cardinality({r \in KeywordAbilityRows(resp.data.id) :
                                                     r[1].keyword_name.v = Node(i).name})
           /\ \A m, n \in 1..Len(Node(i).abilities) :
                 m < n => CollationIndex(Node(i).abilities[m].name)
                            <= CollationIndex(Node(i).abilities[n].name)

C26_NodesInQueryOrder ==
    (req.tool = "getMonsterById" /\ Answered) =>
        \A i, j \in 1..Len(resp.data.keywords) :
           i < j => CollationIndex(Node(i).name) < CollationIndex(Node(j).name)

C26_KeywordsFolded ==
    C26_OneNodePerName /\ C26_AbilitiesInQueryOrder /\ C26_NodesInQueryOrder

(***************************************************************************)
(* C27.  Every keyword of the stat block of the creature a getMonsterById  *)
(* answer is about appears in the keywords list of the answer; a keyword   *)
(* that owns no ability appears with an empty abilities list.              *)
(***************************************************************************)
OwnsNoAbility(k) == ~\E a \in db.abilities : a.keyword_id = k.keyword_id

C27_EveryKeywordListed ==
    (req.tool = "getMonsterById" /\ Answered) =>
        \A k \in RelatedRows("keywords", resp.data.id) :
           \E i \in 1..Len(resp.data.keywords) :
              /\ resp.data.keywords[i].name = k.keyword_name.v
              /\ (\A other \in RelatedRows("keywords", resp.data.id) :
                     other.keyword_name = k.keyword_name => OwnsNoAbility(other))
                   => resp.data.keywords[i].abilities = <<>>

(***************************************************************************)
(* C28.  Whatever the interleaving of the invocations, an invocation holds *)
(* at most one client of the pool at a time, no client is held by two      *)
(* calls at once, and the clients checked out never exceed the size of the *)
(* pool.                                                                   *)
(***************************************************************************)
Holds(k) == calls[k].client /\ calls[k].released = 0

C28_OneClientEach ==
    /\ \A i \in Invocations : Cardinality({k \in CallsOf(i) : Holds(k)}) <= 1
    /\ \A k, l \in 1..Len(calls) :
          (k # l /\ Holds(k) /\ Holds(l)) => calls[k].conn # calls[l].conn
    /\ \A k \in 1..Len(calls) : Holds(k) => calls[k].conn \in 1..PoolSize
    /\ CheckedOut <= PoolSize

\* Every client of the pool is held, each by another invocation, one of them
\* in the second statement of its invocation after it gave back the client of
\* the first.
C28_Witness ==
    /\ CheckedOut = PoolSize
    /\ \E k, l \in 1..Len(calls) :
          /\ k < l /\ calls[k].owner = calls[l].owner
          /\ Over(calls[k]) /\ calls[k].released = 1
          /\ Holds(l)
    /\ \E k, l \in 1..Len(calls) : Holds(k) /\ Holds(l) /\ calls[k].owner # calls[l].owner

(***************************************************************************)
(* C29.  The statement getMonsters sends holds no value of the caller: the *)
(* supplied filter values, the limit and the offset are the parameters, in *)
(* that order, each referred to by the placeholder of its position, and    *)
(* the placeholders are 1..n for the n parameters; of the caller's words   *)
(* the text holds only an allow-listed sort column and ASC or DESC.        *)
(***************************************************************************)
SuppliedFilters ==
    SelectSeq(<<req.args.filters.category, req.args.filters.habitat,
                req.args.filters.biome, req.args.filters.rarity>>, Supplied)

IsPlaceholder(e, n) == DOMAIN e = {"ph"} /\ e.ph = n

C29_ValuesAreBound ==
    (req.tool = "getMonsters" /\ queries # <<>>) =>
        LET stmt == queries[1].stmt
            bound == queries[1].params
            n == Len(bound)
            k == Len(SuppliedFilters)
        IN /\ Len(queries) = 1
           /\ n = k + 2
           /\ Len(stmt.where) = k
           /\ \A i \in 1..k :
                 /\ DOMAIN stmt.where[i] = {"col", "op", "ph"}
                 /\ stmt.where[i].ph = i
                 /\ stmt.where[i].col \in {Col("c", "category_name"), Col("m", "habitat"),
                                           Col("m", "biome"), Col("m", "rarity")}
                 /\ bound[i] = SqlText(SuppliedFilters[i][1])
           /\ Len(stmt.limit) = 1 /\ IsPlaceholder(stmt.limit[1], k + 1)
           /\ Len(stmt.offset) = 1 /\ IsPlaceholder(stmt.offset[1], k + 2)
           /\ bound[k + 1] = SqlInt(GrantedLimit)
           /\ bound[k + 2] = SqlInt(RequestedOffset)
           /\ Len(stmt.orderBy) = 2
           /\ stmt.orderBy[1].col \in {Col("m", f) : f \in {"name", "category", "habitat",
                                                            "rarity"}}
           /\ stmt.orderBy[1].dir \in {"ASC", "DESC"}
           /\ stmt.orderBy[2] = [col |-> Col("m", "monster_id"), dir |-> "ASC"]

\* Three filters, a limit, an offset and a descending sort were given, and
\* the statement went out with five parameters.
C29_Witness ==
    /\ req.tool = "getMonsters" /\ Answered
    /\ Len(SuppliedFilters) = 3
    /\ req.args.limit # <<>> /\ req.args.offset # <<>> /\ req.via = "direct"
    /\ req.args.sort = [field |-> <<"rarity">>, direction |-> <<"desc">>]
    /\ Len(queries[1].params) = 5
    /\ queries[1].stmt.orderBy[1] = [col |-> Col("m", "rarity"), dir |-> "DESC"]

(***************************************************************************)
(* C30.  The three cached lists a Knowledge loader reads (categories,      *)
(* subcategories, habitats) are all unloaded or all loaded, also after     *)
(* initializeResources failed at its second or third statement.            *)
(***************************************************************************)
Unloaded(list) == list = <<>>

C30_AllOrNone ==
    \/ Unloaded(res.categories) /\ Unloaded(res.subcategories) /\ Unloaded(res.habitats)
    \/ ~Unloaded(res.categories) /\ ~Unloaded(res.subcategories) /\ ~Unloaded(res.habitats)
====
